---- MODULE Spec2Model ----
(***************************************************************************)
(* Model of the Urdu story generator: the BPE codec                        *)
(* (src/tokenizer/bpe_tokenizer.py), the trigram language model            *)
(* (src/model/trigram_model.py) and the special tokens                     *)
(* (src/utils/constants.py).                                               *)
(*                                                                         *)
(* A Python str is modelled as a sequence of characters; a character is a  *)
(* one-element TLA+ string or the name of a code point ("U+E002").  A      *)
(* token, a word and a text are all such sequences.                        *)
(***************************************************************************)
EXTENDS Integers, Sequences, FiniteSets, TLC

\* ------------------------------------------------------------------------
\* utils/constants.py
\* ------------------------------------------------------------------------
EOS == "U+E000"
EOP == "U+E001"
EOT == "U+E002"
SPECIAL_TOKENS == {EOS, EOP, EOT}
EOW == <<"<", "/", "w", ">">>

\* The one-character strings EOS, EOP, EOT as Python str values.
EOS_STR == <<EOS>>
EOP_STR == <<EOP>>
EOT_STR == <<EOT>>

\* ------------------------------------------------------------------------
\* Python str / list primitives used by the code
\* ------------------------------------------------------------------------
\* Characters str.split() and str.strip() treat as whitespace.
Whitespace == {" ", "\n"}

\* The Python object None inside a token list (it is not a str).
NoneTok == <<"NoneType">>

Last(s) == s[Len(s)]

StartsWith(s, p) == Len(s) >= Len(p) /\ SubSeq(s, 1, Len(p)) = p

\* ''.join(list) : concatenation of a list of strings.
RECURSIVE Concat(_)
Concat(list) ==
    IF list = <<>> THEN <<>> ELSE Head(list) \o Concat(Tail(list))

\* str.split(): maximal runs of non-whitespace characters, in order.
RECURSIVE SplitFrom(_, _, _)
SplitFrom(s, i, cur) ==
    IF i > Len(s)
    THEN IF cur = <<>> THEN <<>> ELSE <<cur>>
    ELSE IF s[i] \in Whitespace
         THEN (IF cur = <<>> THEN <<>> ELSE <<cur>>) \o SplitFrom(s, i + 1, <<>>)
         ELSE SplitFrom(s, i + 1, Append(cur, s[i]))

Split(s) == SplitFrom(s, 1, <<>>)

\* ' '.join(words)
RECURSIVE JoinSpace(_)
JoinSpace(ws) ==
    IF ws = <<>> THEN <<>>
    ELSE IF Len(ws) = 1 THEN ws[1]
    ELSE ws[1] \o <<" ">> \o JoinSpace(Tail(ws))

\* str.strip() / str.rstrip()
RECURSIVE RStrip(_)
RStrip(s) ==
    IF s # <<>> /\ Last(s) \in Whitespace THEN RStrip(SubSeq(s, 1, Len(s) - 1)) ELSE s

RECURSIVE LStrip(_)
LStrip(s) ==
    IF s # <<>> /\ Head(s) \in Whitespace THEN LStrip(Tail(s)) ELSE s

Strip(s) == LStrip(RStrip(s))

\* text.replace('</w>', ' '): every non-overlapping occurrence, leftmost first.
RECURSIVE ReplaceEOW(_)
ReplaceEOW(s) ==
    IF s = <<>> THEN <<>>
    ELSE IF StartsWith(s, EOW)
         THEN <<" ">> \o ReplaceEOW(SubSeq(s, Len(EOW) + 1, Len(s)))
         ELSE <<Head(s)>> \o ReplaceEOW(Tail(s))

\* [c for c in word]: a word as the list of its one-character strings.
Chars(word) == [i \in 1..Len(word) |-> <<word[i]>>]

\* A Python dict is the sequence of its <<key, value>> items in insertion
\* order (iteration, max() and overwriting all depend on that order).
HasKey(d, k) == \E i \in 1..Len(d) : d[i][1] = k

\* d.get(k, default)
DictGet(d, k, default) ==
    IF HasKey(d, k) THEN d[CHOOSE i \in 1..Len(d) : d[i][1] = k][2] ELSE default

\* d[k] = v : an existing key keeps its position.
DictSet(d, k, v) ==
    IF HasKey(d, k)
    THEN [i \in 1..Len(d) |-> IF d[i][1] = k THEN <<k, v>> ELSE d[i]]
    ELSE Append(d, <<k, v>>)

\* defaultdict(int): d[k] += n
DictAdd(d, k, n) == DictSet(d, k, DictGet(d, k, 0) + n)

\* ------------------------------------------------------------------------
\* tokenizer/bpe_tokenizer.py : encode, _apply_merge_to_tokens, decode
\* ------------------------------------------------------------------------
\* The literals encode and initialize_vocabulary compare a word against.
BracketedSpecials ==
    { <<"<", "E", "O", "S", ">">>, <<"<", "E", "O", "P", ">">>, <<"<", "E", "O", "T", ">">> }

RECURSIVE ApplyMergeFrom(_, _, _)
ApplyMergeFrom(tokens, pair, i) ==
    IF i > Len(tokens) THEN <<>>
    ELSE IF i < Len(tokens) /\ tokens[i] = pair[1] /\ tokens[i + 1] = pair[2]
         THEN <<pair[1] \o pair[2]>> \o ApplyMergeFrom(tokens, pair, i + 2)
         ELSE <<tokens[i]>> \o ApplyMergeFrom(tokens, pair, i + 1)

apply_merge_to_tokens(tokens, pair) == ApplyMergeFrom(tokens, pair, 1)

\* Mutant of ApplyMerges: the rules are applied last-learned first.
RECURSIVE ApplyMerges_Reversed(_, _)
ApplyMerges_Reversed(tokens, merges) ==
    IF merges = <<>> THEN tokens
    ELSE apply_merge_to_tokens(ApplyMerges_Reversed(tokens, Tail(merges)), Head(merges))

\* for merge_pair in merges: tokens = _apply_merge_to_tokens(tokens, merge_pair)
RECURSIVE ApplyMerges(_, _)
ApplyMerges(tokens, merges) ==
    IF merges = <<>> THEN tokens
    ELSE ApplyMerges(apply_merge_to_tokens(tokens, Head(merges)), Tail(merges))

encode_word(word, merges) ==
    IF word \in BracketedSpecials
    THEN <<word>>
    ELSE ApplyMerges(Chars(word) \o <<EOW>>, merges)

RECURSIVE EncodeWords(_, _)
EncodeWords(words, merges) ==
    IF words = <<>> THEN <<>>
    ELSE encode_word(Head(words), merges) \o EncodeWords(Tail(words), merges)

encode(text, merges) == EncodeWords(Split(text), merges)

\* decode's local set special_tokens (the empty string is tested separately).
DecodeSpecialTokens ==
    BracketedSpecials \cup
    { <<"<", "P", "A", "D", ">">>, <<"<", "U", "N", "K", ">">>,
      <<"<", "S", "T", "A", "R", "T", ">">>, <<"<", "E", "N", "D", ">">>,
      <<"N", "o", "n", "e">>, <<"u", "n", "d", "e", "f", "i", "n", "e", "d">>,
      <<"n", "u", "l", "l">>, <<"N", "a", "N">>, <<>> }

\* The test of decode's filtering loop: is token t kept?
DecodeKeeps(t) ==
    /\ t # NoneTok
    /\ t # <<>>
    /\ t \notin DecodeSpecialTokens
    /\ ~StartsWith(t, <<"<">>)

RECURSIVE ValidTokens(_)
ValidTokens(tokens) ==
    IF tokens = <<>> THEN <<>>
    ELSE (IF DecodeKeeps(Head(tokens)) THEN <<Head(tokens)>> ELSE <<>>)
         \o ValidTokens(Tail(tokens))

decode(tokens) ==
    IF tokens = <<>> THEN <<>>
    ELSE Strip(JoinSpace(Split(ReplaceEOW(Concat(ValidTokens(tokens))))))

\* initialize_vocabulary: the word-form of one corpus word ...
word_tuple(word) ==
    IF word \in BracketedSpecials THEN <<word>> ELSE Chars(word) \o <<EOW>>

\* ... and the frequency dict over the word-forms, in order of first
\* occurrence (empty words are skipped).
RECURSIVE InitVocabFrom(_, _)
InitVocabFrom(words, v) ==
    IF words = <<>> THEN v
    ELSE InitVocabFrom(Tail(words),
            IF Head(words) = <<>> THEN v ELSE DictAdd(v, word_tuple(Head(words)), 1))

initialize_vocabulary(words) == InitVocabFrom(words, <<>>)

\* ------------------------------------------------------------------------
\* tokenizer/bpe_tokenizer.py : get_pair_frequencies, merge_pair,
\* count_unique_symbols and the pieces of train_bpe
\* ------------------------------------------------------------------------
\* for i in range(len(word_tuple) - 1): pairs[pair] += freq
RECURSIVE WordPairsFrom(_, _, _, _)
WordPairsFrom(word, freq, i, pairs) ==
    IF i >= Len(word) THEN pairs
    ELSE WordPairsFrom(word, freq, i + 1, DictAdd(pairs, <<word[i], word[i + 1]>>, freq))

RECURSIVE PairsFrom(_, _, _)
PairsFrom(v, k, pairs) ==
    IF k > Len(v) THEN pairs
    ELSE PairsFrom(v, k + 1,
            IF Len(v[k][1]) < 2 THEN pairs ELSE WordPairsFrom(v[k][1], v[k][2], 1, pairs))

get_pair_frequencies(v) == PairsFrom(v, 1, <<>>)

\* Mutant of MergeWordFrom: after a merge the scan moves on by one symbol
\* only, so the second symbol of the pair is kept as well.
RECURSIVE MergeWordFrom_KeepsSecond(_, _, _)
MergeWordFrom_KeepsSecond(word, pair, i) ==
    IF i > Len(word) THEN <<>>
    ELSE IF i < Len(word) /\ word[i] = pair[1] /\ word[i + 1] = pair[2]
         THEN <<pair[1] \o pair[2]>> \o MergeWordFrom_KeepsSecond(word, pair, i + 1)
         ELSE <<word[i]>> \o MergeWordFrom_KeepsSecond(word, pair, i + 1)

\* merge_pair's inner while loop over one word-form.
RECURSIVE MergeWordFrom(_, _, _)
MergeWordFrom(word, pair, i) ==
    IF i > Len(word) THEN <<>>
    ELSE IF i < Len(word) /\ word[i] = pair[1] /\ word[i + 1] = pair[2]
         THEN <<pair[1] \o pair[2]>> \o MergeWordFrom(word, pair, i + 2)
         ELSE <<word[i]>> \o MergeWordFrom(word, pair, i + 1)

\* new_vocab[tuple(new_word)] = freq, for every item of vocab in order.
RECURSIVE MergeVocabFrom(_, _, _, _)
MergeVocabFrom(pair, v, k, new_vocab) ==
    IF k > Len(v) THEN new_vocab
    ELSE MergeVocabFrom(pair, v, k + 1,
            DictSet(new_vocab, MergeWordFrom(v[k][1], pair, 1), v[k][2]))

\* Mutant of merge_pair: a word-form in which the pair does not occur is
\* left out of the new vocabulary.
merge_pair_DropsUntouched(pair, v) ==
    MergeVocabFrom(pair,
                   SelectSeq(v, LAMBDA item : MergeWordFrom(item[1], pair, 1) # item[1]),
                   1, <<>>)

merge_pair(pair, v) == MergeVocabFrom(pair, v, 1, <<>>)

\* The set symbols of count_unique_symbols, and its size.
Symbols(v) == UNION { { v[k][1][i] : i \in 1..Len(v[k][1]) } : k \in 1..Len(v) }

count_unique_symbols(v) == Cardinality(Symbols(v))

\* Mutant of most_frequent_pair: among pairs of equal frequency the one seen
\* last is taken.
most_frequent_pair_LastOfTies(pairs) ==
    pairs[CHOOSE i \in 1..Len(pairs) :
            /\ \A j \in 1..Len(pairs) : pairs[j][2] <= pairs[i][2]
            /\ \A j \in (i + 1)..Len(pairs) : pairs[j][2] < pairs[i][2]][1]

\* max(pairs.items(), key=lambda x: x[1])[0]: the first item, in insertion
\* order, whose frequency is the largest.
most_frequent_pair(pairs) ==
    pairs[CHOOSE i \in 1..Len(pairs) :
            /\ \A j \in 1..Len(pairs) : pairs[j][2] <= pairs[i][2]
            /\ \A j \in 1..(i - 1) : pairs[j][2] < pairs[i][2]][1]

\* Mutant of TargetMet: the loop stops only once the target is exceeded.
TargetMet_OnlyWhenExceeded(current_symbol_count, target) ==
    current_symbol_count > target

\* if current_symbol_count >= target_vocab_size: break
TargetMet(current_symbol_count, target) ==
    current_symbol_count >= target

\* Mutant of NoPairs: training gives up while one pair is still left.
NoPairs_StopsEarly(pairs) == Len(pairs) <= 1

\* if not pairs
NoPairs(pairs) == pairs = <<>>

\* ------------------------------------------------------------------------
\* model/trigram_model.py : count_ngrams, interpolated_probability
\* ------------------------------------------------------------------------
\* dict.get(key, 0)
Get(table, key) == IF key \in DOMAIN table THEN table[key] ELSE 0

\* defaultdict(int): table[key] += 1
Incr(table, key) ==
    [ k \in (DOMAIN table) \cup {key} |-> Get(table, k) + (IF k = key THEN 1 ELSE 0) ]

EmptyTable == [ k \in {} |-> 0 ]

\* sum(table.values())
RECURSIVE SumOver(_, _)
SumOver(table, keys) ==
    IF keys = {} THEN 0
    ELSE LET k == CHOOSE x \in keys : TRUE
         IN  table[k] + SumOver(table, keys \ {k})

Total(table) == SumOver(table, DOMAIN table)

\* Mutant of CountStep: the bigram guard is off by one, the last pair is lost.
CountStep_SkipsLastBigram(tokens, i, c) ==
    [ unigrams |-> Incr(c.unigrams, tokens[i]),
      bigrams  |-> IF i < Len(tokens) - 1
                   THEN Incr(c.bigrams, <<tokens[i], tokens[i + 1]>>)
                   ELSE c.bigrams,
      trigrams |-> IF i < Len(tokens) - 1
                   THEN Incr(c.trigrams, <<tokens[i], tokens[i + 1], tokens[i + 2]>>)
                   ELSE c.trigrams ]

\* Mutant of CountStep: the unigram of the first position is not counted.
CountStep_SkipsFirstUnigram(tokens, i, c) ==
    [ unigrams |-> IF i > 1 THEN Incr(c.unigrams, tokens[i]) ELSE c.unigrams,
      bigrams  |-> IF i < Len(tokens)
                   THEN Incr(c.bigrams, <<tokens[i], tokens[i + 1]>>)
                   ELSE c.bigrams,
      trigrams |-> IF i < Len(tokens) - 1
                   THEN Incr(c.trigrams, <<tokens[i], tokens[i + 1], tokens[i + 2]>>)
                   ELSE c.trigrams ]

\* One iteration of count_ngrams' loop, for position i (1-based).
CountStep(tokens, i, c) ==
    [ unigrams |-> Incr(c.unigrams, tokens[i]),
      bigrams  |-> IF i < Len(tokens)
                   THEN Incr(c.bigrams, <<tokens[i], tokens[i + 1]>>)
                   ELSE c.bigrams,
      trigrams |-> IF i < Len(tokens) - 1
                   THEN Incr(c.trigrams, <<tokens[i], tokens[i + 1], tokens[i + 2]>>)
                   ELSE c.trigrams ]

RECURSIVE CountFrom(_, _, _)
CountFrom(tokens, i, c) ==
    IF i > Len(tokens) THEN c ELSE CountFrom(tokens, i + 1, CountStep(tokens, i, c))

count_ngrams(tokens) ==
    CountFrom(tokens, 1, [unigrams |-> EmptyTable, bigrams |-> EmptyTable, trigrams |-> EmptyTable])

\* The weights are tenths: <<1, 3, 6>> is (0.1, 0.3, 0.6).
DefaultLambdas == <<1, 3, 6>>

\* Mutant of InterpParts: the unigram term is the raw count, not divided
\* by the total.
InterpParts_UnigramNotNormalised(w1, w2, w3, uni, bi, tri) ==
    LET c2    == Get(uni, w2)
        c12   == Get(bi, <<w1, w2>>)
    IN  [ n1 |-> Get(uni, w3),
          d1 |-> 1,
          n2 |-> IF c2 > 0 THEN Get(bi, <<w2, w3>>) ELSE 0,
          d2 |-> IF c2 > 0 THEN c2 ELSE 1,
          n3 |-> IF c12 > 0 THEN Get(tri, <<w1, w2, w3>>) ELSE 0,
          d3 |-> IF c12 > 0 THEN c12 ELSE 1 ]

\* Mutant of InterpParts: the three divisions are not guarded.
InterpParts_Unguarded(w1, w2, w3, uni, bi, tri) ==
    [ n1 |-> Get(uni, w3),
      d1 |-> Total(uni),
      n2 |-> Get(bi, <<w2, w3>>),
      d2 |-> Get(uni, w2),
      n3 |-> Get(tri, <<w1, w2, w3>>),
      d3 |-> Get(bi, <<w1, w2>>) ]

\* Mutant of InterpParts: the bigram term divides by the total of all
\* unigram counts instead of count(w2).
InterpParts_BigramOverTotal(w1, w2, w3, uni, bi, tri) ==
    LET total == Total(uni)
        c2    == Get(uni, w2)
        c12   == Get(bi, <<w1, w2>>)
    IN  [ n1 |-> IF total > 0 THEN Get(uni, w3) ELSE 0,
          d1 |-> IF total > 0 THEN total ELSE 1,
          n2 |-> IF c2 > 0 THEN Get(bi, <<w2, w3>>) ELSE 0,
          d2 |-> IF c2 > 0 THEN total ELSE 1,
          n3 |-> IF c12 > 0 THEN Get(tri, <<w1, w2, w3>>) ELSE 0,
          d3 |-> IF c12 > 0 THEN c12 ELSE 1 ]

\* Mutant of InterpParts: the unigram component is left out.
InterpParts_NoUnigramTerm(w1, w2, w3, uni, bi, tri) ==
    LET total == Total(uni)
        c2    == Get(uni, w2)
        c12   == Get(bi, <<w1, w2>>)
    IN  [ n1 |-> 0,
          d1 |-> IF total > 0 THEN total ELSE 1,
          n2 |-> IF c2 > 0 THEN Get(bi, <<w2, w3>>) ELSE 0,
          d2 |-> IF c2 > 0 THEN c2 ELSE 1,
          n3 |-> IF c12 > 0 THEN Get(tri, <<w1, w2, w3>>) ELSE 0,
          d3 |-> IF c12 > 0 THEN c12 ELSE 1 ]

\* interpolated_probability as the exact fraction num/den (den > 0).  A
\* component whose denominator is zero is the fraction 0/1.
InterpParts(w1, w2, w3, uni, bi, tri) ==
    LET total == Total(uni)
        c2    == Get(uni, w2)
        c12   == Get(bi, <<w1, w2>>)
    IN  [ n1 |-> IF total > 0 THEN Get(uni, w3) ELSE 0,
          d1 |-> IF total > 0 THEN total ELSE 1,
          n2 |-> IF c2 > 0 THEN Get(bi, <<w2, w3>>) ELSE 0,
          d2 |-> IF c2 > 0 THEN c2 ELSE 1,
          n3 |-> IF c12 > 0 THEN Get(tri, <<w1, w2, w3>>) ELSE 0,
          d3 |-> IF c12 > 0 THEN c12 ELSE 1 ]

interpolated_probability(w1, w2, w3, uni, bi, tri, lam) ==
    LET p == InterpParts(w1, w2, w3, uni, bi, tri)
    IN  [ num |-> lam[1] * p.n1 * p.d2 * p.d3
                  + lam[2] * p.n2 * p.d1 * p.d3
                  + lam[3] * p.n3 * p.d1 * p.d2,
          den |-> 10 * p.d1 * p.d2 * p.d3 ]

\* ------------------------------------------------------------------------
\* State
\* ------------------------------------------------------------------------
VARIABLES
    text,            \* encode's input text / the corpus text
    merges,          \* the ordered merge rule list
    vocab,           \* initialize_vocabulary's result: word-form -> frequency
    tokens,          \* the token list a function works on or returns
    decoded_text,    \* decode's return value
    prefix_tokens,   \* generate_story's argument
    max_len,         \* generate_story's argument
    lambdas,         \* generate_story's argument, in tenths
    unigram_counts,  \* the three n-gram tables
    bigram_counts,
    trigram_counts,
    stop_reason,     \* how generate_story's loop was left
    result,          \* generate_story's return value
    current_vocab,   \* train_bpe's working vocabulary
    target_vocab_size, \* train_bpe's argument
    query,           \* interpolated_probability's arguments (w1, w2, w3)
    prob,            \* interpolated_probability's return value, a fraction
    disk,            \* the artifacts vocab.json, merges.txt, trigram_model.pkl
    loaded,          \* what load_tokenizer / load_model returned or raised
    entry,           \* the serving entry point: api/generate.py or backend/api.py
    request,         \* the body of the POST request being handled
    responses,       \* the responses sent for this request, in order
    calls,           \* the core functions called for this request
    cache,           \* the module globals _vocab, _merges, _unigrams, _bigrams, _trigrams
    served,          \* the number of requests received so far
    pc               \* the position of the running function

vars == << text, merges, vocab, tokens, decoded_text, prefix_tokens, max_len, lambdas,
           unigram_counts, bigram_counts, trigram_counts, stop_reason, result,
           current_vocab, target_vocab_size, query, prob, disk, loaded,
           entry, request, responses, calls, cache, served, pc >>

codecVars == << text, merges, vocab >>
tableVars == << unigram_counts, bigram_counts, trigram_counts >>
genArgs   == << prefix_tokens, max_len, lambdas >>
trainVars == << current_vocab, target_vocab_size >>
probVars  == << query, prob >>
storeVars == << disk, loaded >>
apiVars   == << entry, request, responses, calls, cache, served >>

\* Values of the variables a specification does not use.
CodecIdle ==
    /\ text = <<>>
    /\ merges = <<>>
    /\ vocab = <<>>

TablesEmpty ==
    /\ unigram_counts = EmptyTable
    /\ bigram_counts = EmptyTable
    /\ trigram_counts = EmptyTable

GenIdle ==
    /\ prefix_tokens = <<>>
    /\ max_len = 0
    /\ lambdas = DefaultLambdas
    /\ stop_reason = "none"
    /\ result = <<>>

\* An artifact that was never written, and the state before any load.
NoFile == [state |-> "missing", content |-> <<>>]

NoFiles == [vocab_json |-> NoFile, merges_txt |-> NoFile, model_pkl |-> NoFile]

NotLoaded == [status |-> "none"]

\* A module global that is still None, and one that holds a value.
NoneValue == [is_none |-> TRUE, value |-> <<>>]

Loaded(v) == [is_none |-> FALSE, value |-> v]

\* _vocab = _merges = _unigrams = _bigrams = _trigrams = None
EmptyCache ==
    [vocab |-> NoneValue, merges |-> NoneValue, unigrams |-> NoneValue,
     bigrams |-> NoneValue, trigrams |-> NoneValue]

\* JSON values of a request field: the field is absent, null, a string, an
\* integer, or the non-integral number n + 0.5.
JsonAbsent == [t |-> "absent", s |-> <<>>, n |-> 0]

JsonNull == [t |-> "null", s |-> <<>>, n |-> 0]

JsonStr(s) == [t |-> "str", s |-> s, n |-> 0]

JsonInt(n) == [t |-> "int", s |-> <<>>, n |-> n]

JsonHalf(n) == [t |-> "float", s |-> <<>>, n |-> n]

NoRequest == [body |-> "none", prefix |-> JsonAbsent, max_length |-> JsonAbsent]

ApiIdle ==
    /\ entry = "none"
    /\ request = NoRequest
    /\ responses = <<>>
    /\ calls = {}
    /\ cache = EmptyCache
    /\ served = 0

TrainIdle ==
    /\ current_vocab = <<>>
    /\ target_vocab_size = 0

ProbIdle ==
    /\ query = <<>>
    /\ prob = [num |-> 0, den |-> 1]

StoreIdle ==
    /\ disk = NoFiles
    /\ loaded = NotLoaded

\* All sequences over S of length lo..hi.
SeqsOf(S, lo, hi) == UNION { [1..n -> S] : n \in lo..hi }

\* ------------------------------------------------------------------------
\* model/trigram_model.py : generate_story
\* ------------------------------------------------------------------------
PAD == <<"<", "P", "A", "D", ">">>

\* The sentence-ending marks: Urdu full stop, Arabic question mark, '!'.
SentenceEnd == {"U+06D4", "U+061F", "!"}

\* Mutant of LoopCond: the loop runs one iteration too long.
LoopCond_OffByOne(toks, limit) == Len(toks) <= limit

\* The while condition of the sampling loop.
LoopCond(toks, limit) == Len(toks) < limit

\* The context (w1, w2) for a non-empty token list.
Context(toks) ==
    IF Len(toks) >= 2 THEN <<toks[Len(toks) - 1], toks[Len(toks)]>>
    ELSE <<PAD, toks[Len(toks)]>>

\* Mutant of Candidates: the test p > 0 is missing, every unigram key is a
\* candidate.
Candidates_Unfiltered(ctx, uni, bi, tri, lam) == DOMAIN uni

\* The list candidates: the unigram keys with probability > 0 under ctx.
Candidates(ctx, uni, bi, tri, lam) ==
    { w3 \in DOMAIN uni :
        interpolated_probability(ctx[1], ctx[2], w3, uni, bi, tri, lam).num > 0 }

CurrentCandidates ==
    Candidates(Context(tokens), unigram_counts, bigram_counts, trigram_counts, lambdas)

\* Mutant of EnsureEnding: the mark is never appended.
EnsureEnding_NoAppend(decoded) == decoded

\* The punctuation step applied to decode's result, and the final strip().
EnsureEnding(decoded) ==
    IF decoded # <<>>
    THEN LET d == RStrip(decoded)
         IN  IF d # <<>> /\ Last(d) \in SentenceEnd THEN d ELSE Append(d, "U+06D4")
    ELSE decoded

FinalText(decoded) == Strip(EnsureEnding(decoded))

genFrame == UNCHANGED << codecVars, tableVars, genArgs, trainVars, probVars, storeVars, apiVars >>

\* while len(tokens) < max_len: false, the loop ends.
LoopExitBudget ==
    /\ pc = "while"
    /\ ~LoopCond(tokens, max_len)
    /\ pc' = "after_loop"
    /\ stop_reason' = "budget"
    /\ UNCHANGED << tokens, decoded_text, result >>
    /\ genFrame

\* else: break  (empty token list)
BreakEmptyPrefix ==
    /\ pc = "while"
    /\ LoopCond(tokens, max_len)
    /\ tokens = <<>>
    /\ pc' = "after_loop"
    /\ stop_reason' = "empty"
    /\ UNCHANGED << tokens, decoded_text, result >>
    /\ genFrame

\* Mutant of BreakExhausted: the emptiness test is missing and
\* random.choices raises on the empty candidate list.
BreakExhausted_Raises ==
    /\ pc = "while"
    /\ LoopCond(tokens, max_len)
    /\ tokens # <<>>
    /\ CurrentCandidates = {}
    /\ pc' = "error"
    /\ stop_reason' = "exhausted"
    /\ UNCHANGED << tokens, decoded_text, result >>
    /\ genFrame

\* if not candidates: break
BreakExhausted ==
    /\ pc = "while"
    /\ LoopCond(tokens, max_len)
    /\ tokens # <<>>
    /\ CurrentCandidates = {}
    /\ pc' = "after_loop"
    /\ stop_reason' = "exhausted"
    /\ UNCHANGED << tokens, decoded_text, result >>
    /\ genFrame

\* Mutant of AfterSample: the break on EOT is missing.
AfterSample_NoBreak(next_token) == "while"

\* Where the loop goes after appending next_token.
AfterSample(next_token) == IF next_token = EOT_STR THEN "after_loop" ELSE "while"

\* Mutant of SampleToken: tokens is the caller's list itself, not a copy, so
\* the append shows in prefix_tokens.
SampleToken_Aliased ==
    /\ pc = "while"
    /\ LoopCond(tokens, max_len)
    /\ tokens # <<>>
    /\ \E next_token \in CurrentCandidates :
        /\ tokens' = Append(tokens, next_token)
        /\ pc' = AfterSample(next_token)
        /\ stop_reason' = IF next_token = EOT_STR THEN "eot" ELSE "none"
    /\ prefix_tokens' = tokens'
    /\ UNCHANGED << decoded_text, result, max_len, lambdas >>
    /\ UNCHANGED << codecVars, tableVars, trainVars, probVars, storeVars, apiVars >>

\* next_token = random.choices(candidates, weights=probs)[0]; append; break on EOT
SampleToken ==
    /\ pc = "while"
    /\ LoopCond(tokens, max_len)
    /\ tokens # <<>>
    /\ \E next_token \in CurrentCandidates :
        /\ tokens' = Append(tokens, next_token)
        /\ pc' = AfterSample(next_token)
        /\ stop_reason' = IF next_token = EOT_STR THEN "eot" ELSE "none"
    /\ UNCHANGED << decoded_text, result >>
    /\ genFrame

\* Mutant of EnsureEOT: EOT is appended without looking at the last token.
EnsureEOT_AlwaysAppends ==
    /\ pc = "after_loop"
    /\ IF Len(tokens) >= max_len
       THEN pc' = "decode" /\ tokens' = Append(tokens, EOT_STR)
       ELSE pc' = "decode" /\ tokens' = tokens
    /\ UNCHANGED << stop_reason, decoded_text, result >>
    /\ genFrame

\* if len(tokens) >= max_len and tokens[-1] != EOT: tokens.append(EOT)
\* (tokens[-1] of an empty list raises IndexError)
EnsureEOT ==
    /\ pc = "after_loop"
    /\ IF Len(tokens) >= max_len
       THEN IF tokens = <<>>
            THEN pc' = "error" /\ tokens' = tokens
            ELSE /\ pc' = "decode"
                 /\ tokens' = IF Last(tokens) # EOT_STR THEN Append(tokens, EOT_STR) ELSE tokens
       ELSE pc' = "decode" /\ tokens' = tokens
    /\ UNCHANGED << stop_reason, decoded_text, result >>
    /\ genFrame

\* decoded_text = decode(tokens); punctuation; return
Finish ==
    /\ pc = "decode"
    /\ decoded_text' = decode(tokens)
    /\ result' = FinalText(decode(tokens))
    /\ pc' = "done"
    /\ UNCHANGED << tokens, stop_reason >>
    /\ genFrame

\* ------------------------------------------------------------------------
\* Bounds and input sets
\* ------------------------------------------------------------------------
MaxPrefixLen == 2
MaxLenBound == 4
MaxTextPieces == 3
MaxTokenListLen == 3
MaxCorpusLen == 4
MaxCorpusWords == 3
MaxTarget == 6

\* Tokens as encode produces them: 'a</w>', 'b', the full stop with its
\* end-of-word marker, a lone '</w>', and the end-of-text character.
TokA == <<"a">> \o EOW
TokB == <<"b">>
TokStop == <<"U+06D4">> \o EOW

\* Token streams the n-gram tables are counted from (count_ngrams, as
\* train_trigram.py does); the empty stream gives empty tables.
TrainingStreams ==
    { <<>>,
      <<TokA, TokB, TokA, TokStop, EOT_STR>>,
      <<TokB, TokA, EOW>> }

LambdaChoices == { DefaultLambdas, <<0, 3, 7>> }

PrefixTokenPool == { TokA, TokB, EOT_STR }

InitGen ==
    /\ CodecIdle
    /\ prefix_tokens \in SeqsOf(PrefixTokenPool, 0, MaxPrefixLen)
    /\ max_len \in 1..MaxLenBound
    /\ lambdas \in LambdaChoices
    /\ \E stream \in TrainingStreams :
         LET c == count_ngrams(stream)
         IN  /\ unigram_counts = c.unigrams
             /\ bigram_counts = c.bigrams
             /\ trigram_counts = c.trigrams
    /\ tokens = prefix_tokens
    /\ stop_reason = "none"
    /\ decoded_text = <<>>
    /\ result = <<>>
    /\ pc = "while"
    /\ TrainIdle
    /\ ProbIdle
    /\ StoreIdle
    /\ ApiIdle

NextGen ==
    \/ LoopExitBudget
    \/ BreakEmptyPrefix
    \/ BreakExhausted
    \/ SampleToken
    \/ EnsureEOT
    \/ Finish

Spec == InitGen /\ [][NextGen]_vars

\* ------------------------------------------------------------------------
\* Properties of generate_story
\* ------------------------------------------------------------------------
Max(a, b) == IF a >= b THEN a ELSE b

\* Number of tokens generate_story has appended to its prefix.
Appended == Len(tokens) - Len(prefix_tokens)

\* The sampling budget: max_len - len(prefix), none when the prefix is longer.
SampleBudget == Max(max_len - Len(prefix_tokens), 0)

NoSpecialChar(s) == \A i \in 1..Len(s) : s[i] \notin SPECIAL_TOKENS

\* Progress measure of generate_story: it grows with every step.
PcRank == CASE pc = "while" -> 0 [] pc = "after_loop" -> 1 [] pc = "decode" -> 2 [] OTHER -> 3

Progress == 4 * Len(tokens) + PcRank

\* C2: for a non-empty prefix generate_story always returns, having appended
\* at most max_len + 1 tokens: at most max_len - len(prefix) sampled ones
\* (while the loop runs) plus at most one forced end-of-text token.  It
\* terminates because every step raises the bounded measure Progress, no
\* step raises an error, and a next step always exists until the return
\* (at "decode" the next step is Finish, whose only guard is pc = "decode").
C2_GenerationTerminates ==
    /\ [](prefix_tokens # <<>> =>
            /\ Appended <= max_len + 1
            /\ Appended <= SampleBudget + 1
            /\ (pc \in {"while", "after_loop"} => Appended <= SampleBudget)
            /\ pc # "error"
            /\ (pc \in {"while", "after_loop"} =>
                    ENABLED (LoopExitBudget \/ BreakEmptyPrefix \/ BreakExhausted
                             \/ SampleToken \/ EnsureEOT)))
    /\ [][prefix_tokens # <<>> => Progress' > Progress]_vars

\* C2 witness: a run that sampled up to the budget and got the forced EOT.
C2_Witness ==
    /\ pc = "done"
    /\ prefix_tokens # <<>>
    /\ Len(prefix_tokens) < max_len
    /\ Appended = SampleBudget + 1
    /\ stop_reason = "budget"

\* C3: the returned string contains none of the characters EOS, EOP, EOT.
C3_StoryHasNoSpecialToken ==
    pc = "done" => NoSpecialChar(result)

\* C4: a non-empty returned text ends with a sentence-ending mark, and the
\* mark is appended exactly when the decoded text is non-empty and does not
\* already end with one.
C4_StoryEndsWithMark ==
    pc = "done" =>
        /\ result # <<>> => Last(result) \in SentenceEnd
        /\ IF decoded_text # <<>> /\ Last(decoded_text) \notin SentenceEnd
           THEN result = Append(decoded_text, "U+06D4")
           ELSE result = decoded_text

\* C4 witness: a decoded text without a final mark got one appended.
C4_Witness ==
    /\ pc = "done"
    /\ decoded_text # <<>>
    /\ Last(decoded_text) \notin SentenceEnd
    /\ result = Append(decoded_text, "U+06D4")

\* C5: nothing is appended after a sampled EOT: the loop is left at once,
\* the token list no longer changes, and among the generated tokens EOT
\* occurs only as the last one.
C5_StopsAtSampledEOT ==
    /\ [](\A i \in (Len(prefix_tokens) + 1)..Len(tokens) :
            tokens[i] = EOT_STR => i = Len(tokens))
    /\ [](stop_reason = "eot" => pc # "while" /\ Last(tokens) = EOT_STR)
    /\ [][stop_reason = "eot" => tokens' = tokens]_vars

\* C5 witness: EOT was sampled before the budget was used up.
C5_Witness ==
    /\ pc = "done"
    /\ stop_reason = "eot"
    /\ Len(tokens) < max_len
    /\ Appended >= 2

NoPositiveCandidate ==
    \A w3 \in DOMAIN unigram_counts :
        interpolated_probability(Context(tokens)[1], Context(tokens)[2], w3,
            unigram_counts, bigram_counts, trigram_counts, lambdas).num <= 0

\* C7: when no unigram key has positive probability the loop is left without
\* an error and without appending; the token list stays as it was and the
\* returned text is the decoding of exactly those tokens (closed, as on
\* every return, by a sentence-ending mark when it lacks one).
C7_ExhaustedDistribution ==
    /\ [][pc = "while" /\ tokens # <<>> /\ Len(tokens) < max_len /\ NoPositiveCandidate =>
            tokens' = tokens /\ pc' = "after_loop" /\ stop_reason' = "exhausted"]_vars
    /\ [][stop_reason = "exhausted" => tokens' = tokens /\ pc' # "error"]_vars
    /\ [](stop_reason = "exhausted" /\ pc = "done" =>
            /\ decoded_text = decode(tokens)
            /\ result \in { decoded_text, Append(decoded_text, "U+06D4") })
    /\ [](stop_reason = "exhausted" => pc # "error")

\* C7 witness: the distribution ran out after some tokens had been sampled.
C7_Witness ==
    /\ pc = "done"
    /\ stop_reason = "exhausted"
    /\ Appended >= 1
    /\ unigram_counts # EmptyTable

\* ------------------------------------------------------------------------
\* The codec as a state machine: encode, decode, initialize_vocabulary
\* ------------------------------------------------------------------------
\* A text is a concatenation of at most MaxTextPieces pieces: a letter, a
\* space, a line break, the end-of-text character, or the literal '<EOT>'.
TextPieces ==
    { <<"a">>, <<"b">>, <<" ">>, <<"\n">>, EOT_STR, <<"<", "E", "O", "T", ">">> }

\* The text and the merge list of encode's documented example and of the
\* module's self-test: two Urdu words, and the rule that merges the first
\* two letters (U+0628, U+06C1) of the first word.
ScenarioText ==
    << "U+0628", "U+06C1", "U+062A", " ", "U+0627", "U+0686", "U+06BE", "U+0627" >>

ScenarioMerges == << << <<"U+0628">>, <<"U+06C1">> >> >>

Texts == { Concat(ps) : ps \in SeqsOf(TextPieces, 0, MaxTextPieces) } \cup { ScenarioText }

\* Merge rule lists: none, one rule, two dependent rules, and the rule that
\* training learns from a corpus whose word is the end-of-text character.
MergeChoices ==
    { <<>>,
      << <<TokB, EOW>> >>,
      << <<TokB, EOW>>, << <<"a">>, TokB \o EOW >> >>,
      << <<EOT_STR, EOW>> >>,
      ScenarioMerges }

codecFrame == UNCHANGED << tableVars, genArgs, stop_reason, result, trainVars, probVars, storeVars, apiVars >>

InitCodec ==
    /\ text \in Texts
    /\ merges \in MergeChoices
    /\ vocab = <<>>
    /\ tokens = <<>>
    /\ decoded_text = <<>>
    /\ pc = "text"
    /\ TablesEmpty
    /\ GenIdle
    /\ TrainIdle
    /\ ProbIdle
    /\ StoreIdle
    /\ ApiIdle

\* tokens = encode(text, merges)
Encode ==
    /\ pc = "text"
    /\ tokens' = encode(text, merges)
    /\ pc' = "encoded"
    /\ UNCHANGED << text, merges, vocab, decoded_text >>
    /\ codecFrame

\* decoded_text = decode(tokens)
Decode ==
    /\ pc = "encoded"
    /\ decoded_text' = decode(tokens)
    /\ pc' = "decoded"
    /\ UNCHANGED << text, merges, vocab, tokens >>
    /\ codecFrame

\* vocab = initialize_vocabulary(load_corpus(...)), the corpus words being text.split()
InitializeVocabulary ==
    /\ pc = "text"
    /\ vocab' = initialize_vocabulary(Split(text))
    /\ pc' = "vocab"
    /\ UNCHANGED << text, merges, tokens, decoded_text >>
    /\ codecFrame

NextCodec == Encode \/ Decode \/ InitializeVocabulary

SpecCodec == InitCodec /\ [][NextCodec]_vars

\* decode on its own, applied to any token list: strings of all the kinds
\* its filter distinguishes, and None.
DecodeTokenPool ==
    { NoneTok, <<>>, EOT_STR, PAD, <<"N", "o", "n", "e">>, EOW, TokA, TokB }

InitDecode ==
    /\ CodecIdle
    /\ tokens \in SeqsOf(DecodeTokenPool, 0, MaxTokenListLen)
    /\ decoded_text = <<>>
    /\ pc = "encoded"
    /\ TablesEmpty
    /\ GenIdle
    /\ TrainIdle
    /\ ProbIdle
    /\ StoreIdle
    /\ ApiIdle

SpecDecode == InitDecode /\ [][Decode]_vars

\* ------------------------------------------------------------------------
\* count_ngrams as a state machine
\* ------------------------------------------------------------------------
CountTokenPool == { TokA, TokB, EOT_STR }

InitCount ==
    /\ CodecIdle
    /\ tokens \in SeqsOf(CountTokenPool, 0, MaxCorpusLen)
    /\ decoded_text = <<>>
    /\ pc = "corpus"
    /\ TablesEmpty
    /\ GenIdle
    /\ TrainIdle
    /\ ProbIdle
    /\ StoreIdle
    /\ ApiIdle

\* unigrams, bigrams, trigrams = count_ngrams(tokens)
CountNgrams ==
    /\ pc = "corpus"
    /\ LET c == count_ngrams(tokens)
       IN  /\ unigram_counts' = c.unigrams
           /\ bigram_counts' = c.bigrams
           /\ trigram_counts' = c.trigrams
    /\ pc' = "counted"
    /\ UNCHANGED << codecVars, tokens, decoded_text, genArgs, stop_reason, result,
                    trainVars, probVars, storeVars, apiVars >>

SpecCount == InitCount /\ [][CountNgrams]_vars

\* ------------------------------------------------------------------------
\* Properties of the codec and of count_ngrams
\* ------------------------------------------------------------------------
\* The text holds letters and spaces only (no special-token character, no
\* bracket, no line break), and no two spaces in a row.
OrdinaryText(t) ==
    /\ \A i \in 1..Len(t) : t[i] \in {"a", "b", " "}
    /\ \A i \in 1..(Len(t) - 1) : ~(t[i] = " " /\ t[i + 1] = " ")

\* C1: round trip: for a text of ordinary characters whose words are
\* separated by single spaces, and any merge list, decode(encode(text))
\* is the text with its whitespace normalized.
C1_RoundTrip ==
    pc = "decoded" /\ OrdinaryText(text) => decoded_text = JoinSpace(Split(text))

\* The words the claim calls special tokens: the constants EOS, EOP, EOT.
IsSpecialWord(w) == w \in { EOS_STR, EOP_STR, EOT_STR }

\* The token list in which every special word is one token of its own.
RECURSIVE EncodeAtomic(_, _)
EncodeAtomic(words, ms) ==
    IF words = <<>> THEN <<>>
    ELSE (IF IsSpecialWord(Head(words)) THEN <<Head(words)>> ELSE encode_word(Head(words), ms))
         \o EncodeAtomic(Tail(words), ms)

\* C8: a word equal to EOS, EOP or EOT is encoded as exactly that one
\* token (no characters, no end-of-word marker, no merge), and
\* initialize_vocabulary keeps it as a one-symbol word-form.
C8_SpecialWordsAtomic ==
    /\ pc = "encoded" => tokens = EncodeAtomic(Split(text), merges)
    /\ pc = "vocab" =>
         \A i \in 1..Len(Split(text)) :
            IsSpecialWord(Split(text)[i]) => HasKey(vocab, << Split(text)[i] >>)

\* The tokens the claim says decode drops.
ClaimedDropped(t) ==
    \/ t = NoneTok
    \/ t = <<>>
    \/ IsSpecialWord(t)
    \/ StartsWith(t, <<"<">>)

RECURSIVE ClaimedKept(_)
ClaimedKept(toks) ==
    IF toks = <<>> THEN <<>>
    ELSE (IF ClaimedDropped(Head(toks)) THEN <<>> ELSE <<Head(toks)>>) \o ClaimedKept(Tail(toks))

\* C9: decode drops exactly the tokens that are None, empty, EOS/EOP/EOT or
\* begin with '<'; the output is the text of all other tokens, in order
\* (end-of-word markers turned into spaces, whitespace normalized).
C9_DecodeDropsExactly ==
    pc = "decoded" =>
        decoded_text = JoinSpace(Split(ReplaceEOW(Concat(ClaimedKept(tokens)))))

\* C10: count conservation: the counts of the three tables sum to n,
\* max(n - 1, 0) and max(n - 2, 0) for a token sequence of length n.
C10_CountConservation ==
    pc = "counted" =>
        /\ Total(unigram_counts) = Len(tokens)
        /\ Total(bigram_counts) = Max(Len(tokens) - 1, 0)
        /\ Total(trigram_counts) = Max(Len(tokens) - 2, 0)

\* C10 witness: a counted sequence of three or more tokens with a repeated token.
C10_Witness ==
    /\ pc = "counted"
    /\ Len(tokens) >= 3
    /\ Cardinality(DOMAIN unigram_counts) < Len(tokens)
    /\ Total(trigram_counts) = Len(tokens) - 2

\* ------------------------------------------------------------------------
\* train_bpe as a state machine (driven as tokenizer/train_bpe.py does)
\* ------------------------------------------------------------------------
\* Corpus words: letters in both orders, a word with a repeated letter, the
\* end-of-text character and the literal '<EOT>'.
TrainWordPool ==
    { <<"a", "b">>, <<"b", "a">>, <<"a", "a", "a">>, EOT_STR, <<"<", "E", "O", "T", ">">> }

TrainTexts == { JoinSpace(ws) : ws \in SeqsOf(TrainWordPool, 0, MaxCorpusWords) }

\* Vocabularies handed to train_bpe directly: one word-form (x, y, z, </w>)
\* of frequency 4, and one that holds a single one-symbol word-form.
HandVocabularies ==
    { << << << <<"x">>, <<"y">>, <<"z">>, EOW >>, 4 >> >>,
      << << << <<"<", "E", "O", "T", ">">> >>, 2 >> >> }

InitTrain ==
    /\ merges = <<>>
    /\ \/ /\ pc = "text"
          /\ text \in TrainTexts
          /\ vocab = <<>>
       \/ /\ pc = "vocab"
          /\ text = <<>>
          /\ vocab \in HandVocabularies
    /\ tokens = <<>>
    /\ decoded_text = <<>>
    /\ current_vocab = <<>>
    /\ target_vocab_size \in 0..MaxTarget
    /\ TablesEmpty
    /\ GenIdle
    /\ ProbIdle
    /\ StoreIdle
    /\ ApiIdle

trainFrame ==
    UNCHANGED << text, vocab, tokens, decoded_text, tableVars, genArgs, stop_reason, result,
                 target_vocab_size, probVars, storeVars, apiVars >>

\* train_bpe(vocab, target_vocab_size): merges = []; current_vocab = vocab
TrainBegin ==
    /\ pc = "vocab"
    /\ merges' = <<>>
    /\ current_vocab' = vocab
    /\ pc' = "train_loop"
    /\ trainFrame

\* if current_symbol_count >= target_vocab_size: break
TargetReached ==
    /\ pc = "train_loop"
    /\ TargetMet(count_unique_symbols(current_vocab), target_vocab_size)
    /\ pc' = "trained"
    /\ UNCHANGED << merges, current_vocab >>
    /\ trainFrame

\* if not pairs: break
NoMorePairs ==
    /\ pc = "train_loop"
    /\ ~TargetMet(count_unique_symbols(current_vocab), target_vocab_size)
    /\ NoPairs(get_pair_frequencies(current_vocab))
    /\ pc' = "trained"
    /\ UNCHANGED << merges, current_vocab >>
    /\ trainFrame

\* most_frequent_pair = max(...); current_vocab = merge_pair(...);
\* merges.append(...)   (max() of an empty sequence raises ValueError)
MergeStep ==
    /\ pc = "train_loop"
    /\ ~TargetMet(count_unique_symbols(current_vocab), target_vocab_size)
    /\ LET pairs == get_pair_frequencies(current_vocab)
       IN  /\ ~NoPairs(pairs)
           /\ IF pairs = <<>>
              THEN pc' = "error" /\ UNCHANGED << merges, current_vocab >>
              ELSE /\ current_vocab' = merge_pair(most_frequent_pair(pairs), current_vocab)
                   /\ merges' = Append(merges, most_frequent_pair(pairs))
                   /\ pc' = "train_loop"
    /\ trainFrame

NextTrain ==
    \/ InitializeVocabulary
    \/ TrainBegin
    \/ TargetReached
    \/ NoMorePairs
    \/ MergeStep

SpecTrain == InitTrain /\ [][NextTrain]_vars

\* ------------------------------------------------------------------------
\* Persistence: save_tokenizer / load_tokenizer, save_model / load_model
\* ------------------------------------------------------------------------
\* Mutant of JoinKey: the symbols of a word-form are written without a
\* separator.
JoinKey_NoSeparator(word) == Concat(word)

\* ' '.join(word_tuple): the JSON key of a word-form.
JoinKey(word) == JoinSpace(word)

\* vocab_serializable = {' '.join(word_tuple): freq for ...}; json.dump
\* writes, and json.load reads back, this dict of string keys.
RECURSIVE SerializeVocabFrom(_, _, _)
SerializeVocabFrom(v, k, out) ==
    IF k > Len(v) THEN out
    ELSE SerializeVocabFrom(v, k + 1, DictSet(out, JoinKey(v[k][1]), v[k][2]))

SerializeVocab(v) == SerializeVocabFrom(v, 1, <<>>)

\* f.write(f"{symbol1} {symbol2}\n") for every merge: the text of merges.txt.
RECURSIVE MergesText(_)
MergesText(ms) ==
    IF ms = <<>> THEN <<>>
    ELSE Head(ms)[1] \o <<" ">> \o Head(ms)[2] \o <<"\n">> \o MergesText(Tail(ms))

\* word_str.split(' '): split at every single space, empty pieces kept.
RECURSIVE SplitOnSpaceFrom(_, _, _)
SplitOnSpaceFrom(str, i, cur) ==
    IF i > Len(str) THEN <<cur>>
    ELSE IF str[i] = " "
         THEN <<cur>> \o SplitOnSpaceFrom(str, i + 1, <<>>)
         ELSE SplitOnSpaceFrom(str, i + 1, Append(cur, str[i]))

SplitOnSpace(str) == SplitOnSpaceFrom(str, 1, <<>>)

\* vocab = {tuple(word_str.split(' ')): freq for ...}
RECURSIVE ParseVocabFrom(_, _, _)
ParseVocabFrom(json, k, out) ==
    IF k > Len(json) THEN out
    ELSE ParseVocabFrom(json, k + 1, DictSet(out, SplitOnSpace(json[k][1]), json[k][2]))

ParseVocab(json) == ParseVocabFrom(json, 1, <<>>)

\* for line in f: the lines of a text file (a last line need not end in a
\* line break).
RECURSIVE LinesFrom(_, _, _)
LinesFrom(content, i, cur) ==
    IF i > Len(content)
    THEN IF cur = <<>> THEN <<>> ELSE <<cur>>
    ELSE IF content[i] = "\n"
         THEN <<Append(cur, "\n")>> \o LinesFrom(content, i + 1, <<>>)
         ELSE LinesFrom(content, i + 1, Append(cur, content[i]))

Lines(content) == LinesFrom(content, 1, <<>>)

\* line.split(' ', 1): split at the first space only.
SplitFirstSpace(line) ==
    IF \E i \in 1..Len(line) : line[i] = " "
    THEN LET i == CHOOSE j \in 1..Len(line) :
                      line[j] = " " /\ \A h \in 1..(j - 1) : line[h] # " "
         IN  << SubSeq(line, 1, i - 1), SubSeq(line, i + 1, Len(line)) >>
    ELSE << line >>

\* The loop of load_tokenizer over the lines of merges.txt: blank lines and
\* lines without two parts are passed over.
RECURSIVE ParseMergeLines(_)
ParseMergeLines(lines) ==
    IF lines = <<>> THEN <<>>
    ELSE LET line == Strip(Head(lines))
         IN  (IF line # <<>> /\ Len(SplitFirstSpace(line)) = 2
              THEN << SplitFirstSpace(line) >>
              ELSE <<>>)
             \o ParseMergeLines(Tail(lines))

ParseMerges(content) == ParseMergeLines(Lines(content))

\* load_tokenizer(output_dir): open() raises FileNotFoundError on a missing
\* file, json.load raises JSONDecodeError on a damaged document; merges.txt
\* is read as whatever text it holds.
load_tokenizer(d) ==
    IF d.vocab_json.state = "missing"
    THEN [status |-> "error", error |-> "FileNotFoundError"]
    ELSE IF d.vocab_json.state = "corrupt"
    THEN [status |-> "error", error |-> "JSONDecodeError"]
    ELSE IF d.merges_txt.state = "missing"
    THEN [status |-> "error", error |-> "FileNotFoundError"]
    ELSE [status |-> "ok",
          vocab |-> ParseVocab(d.vocab_json.content),
          merges |-> ParseMerges(d.merges_txt.content)]

\* load_model(model_path): open() raises FileNotFoundError on a missing
\* file, pickle.load raises on a damaged one.
load_model(d) ==
    IF d.model_pkl.state = "missing"
    THEN [status |-> "error", error |-> "FileNotFoundError"]
    ELSE IF d.model_pkl.state = "corrupt"
    THEN [status |-> "error", error |-> "UnpicklingError"]
    ELSE [status |-> "ok",
          unigrams |-> d.model_pkl.content.unigrams,
          bigrams |-> d.model_pkl.content.bigrams,
          trigrams |-> d.model_pkl.content.trigrams]

storeFrame ==
    UNCHANGED << codecVars, tokens, decoded_text, tableVars, genArgs, stop_reason, result,
                 trainVars, probVars, apiVars >>

\* save_tokenizer(final_vocab, merges, OUTPUT_DIR)
SaveTokenizer ==
    /\ pc = "trained"
    /\ disk' = [disk EXCEPT
                  !.vocab_json = [state |-> "ok", content |-> SerializeVocab(current_vocab)],
                  !.merges_txt = [state |-> "ok", content |-> MergesText(merges)]]
    /\ pc' = "tokenizer_saved"
    /\ UNCHANGED loaded
    /\ storeFrame

\* save_model(MODEL_OUTPUT_PATH, unigrams, bigrams, trigrams)
SaveModel ==
    /\ pc = "counted"
    /\ disk' = [disk EXCEPT
                  !.model_pkl = [state |-> "ok",
                                 content |-> [unigrams |-> unigram_counts,
                                              bigrams |-> bigram_counts,
                                              trigrams |-> trigram_counts]]]
    /\ pc' = "model_saved"
    /\ UNCHANGED loaded
    /\ storeFrame

\* Between a save and a load an artifact is deleted.
LoseArtifact ==
    /\ \/ /\ pc = "tokenizer_saved"
          /\ disk.vocab_json.state = "ok" /\ disk.merges_txt.state = "ok"
          /\ \/ disk' = [disk EXCEPT !.vocab_json = NoFile]
             \/ disk' = [disk EXCEPT !.merges_txt = NoFile]
       \/ /\ pc = "model_saved"
          /\ disk.model_pkl.state = "ok"
          /\ disk' = [disk EXCEPT !.model_pkl = NoFile]
    /\ UNCHANGED << loaded, pc >>
    /\ storeFrame

\* Between a save and a load an artifact is cut short: vocab.json and the
\* pickle no longer parse; merges.txt ends in the middle of a line.
TruncateArtifact ==
    /\ \/ /\ pc = "tokenizer_saved"
          /\ disk.vocab_json.state = "ok" /\ disk.merges_txt.state = "ok"
          /\ \/ disk' = [disk EXCEPT !.vocab_json.state = "corrupt"]
             \/ \E n \in 1..(Len(disk.merges_txt.content) - 1) :
                   /\ disk.merges_txt.content[n] # "\n"
                   /\ disk' = [disk EXCEPT
                                 !.merges_txt = [state |-> "corrupt",
                                                 content |-> SubSeq(disk.merges_txt.content, 1, n)]]
       \/ /\ pc = "model_saved"
          /\ disk.model_pkl.state = "ok"
          /\ disk' = [disk EXCEPT !.model_pkl.state = "corrupt"]
    /\ UNCHANGED << loaded, pc >>
    /\ storeFrame

\* loaded_vocab, loaded_merges = load_tokenizer(OUTPUT_DIR)
LoadTokenizer ==
    /\ pc = "tokenizer_saved"
    /\ loaded' = load_tokenizer(disk)
    /\ pc' = "tokenizer_loaded"
    /\ UNCHANGED disk
    /\ storeFrame

\* loaded_uni, loaded_bi, loaded_tri = load_model(MODEL_OUTPUT_PATH)
LoadModel ==
    /\ pc = "model_saved"
    /\ loaded' = load_model(disk)
    /\ pc' = "model_loaded"
    /\ UNCHANGED disk
    /\ storeFrame

InitStore == InitTrain \/ InitCount

NextStore ==
    \/ NextTrain
    \/ CountNgrams
    \/ SaveTokenizer
    \/ SaveModel
    \/ LoseArtifact
    \/ TruncateArtifact
    \/ LoadTokenizer
    \/ LoadModel

SpecStore == InitStore /\ [][NextStore]_vars

\* Every artifact a load reads is as the save wrote it.
ArtifactsIntact ==
    /\ pc = "tokenizer_loaded" => disk.vocab_json.state = "ok" /\ disk.merges_txt.state = "ok"
    /\ pc = "model_loaded" => disk.model_pkl.state = "ok"

\* C19: persistence round trip: load_tokenizer after save_tokenizer returns
\* the trained vocabulary (the same word-form tuples with the same
\* frequencies) and the same merge pairs in the same order; load_model
\* after save_model returns the same three n-gram tables.
C19_PersistenceRoundTrip ==
    /\ pc = "tokenizer_loaded" /\ ArtifactsIntact =>
          /\ loaded.status = "ok"
          /\ loaded.vocab = current_vocab
          /\ loaded.merges = merges
    /\ pc = "model_loaded" /\ ArtifactsIntact =>
          /\ loaded.status = "ok"
          /\ loaded.unigrams = unigram_counts
          /\ loaded.bigrams = bigram_counts
          /\ loaded.trigrams = trigram_counts

\* C19 witness: a tokenizer with several merges and a word-form of several
\* symbols came back from disk.
C19_Witness ==
    /\ pc = "tokenizer_loaded"
    /\ ArtifactsIntact
    /\ loaded.status = "ok"
    /\ Len(loaded.merges) >= 2
    /\ \E k \in 1..Len(loaded.vocab) : Len(loaded.vocab[k][1]) >= 2
    /\ Len(loaded.vocab) >= 2

\* C20: loading fails loudly: when an artifact is missing or damaged,
\* load_tokenizer and load_model end in an error; no load returns tables
\* in place of the artifact.
C20_LoadFailsLoudly ==
    pc \in {"tokenizer_loaded", "model_loaded"} /\ ~ArtifactsIntact =>
        loaded.status = "error"

\* The number of symbol occurrences in all word-forms of a vocabulary.
RECURSIVE SymbolOccurrences(_)
SymbolOccurrences(v) ==
    IF v = <<>> THEN 0 ELSE Len(Head(v)[1]) + SymbolOccurrences(Tail(v))

\* Some word-form holds two adjacent symbols.
AdjacentPairExists(v) == \E k \in 1..Len(v) : Len(v[k][1]) >= 2

\* One of the three branches of train_bpe's loop body can be taken: the
\* target test, the empty-pairs test, or the merge of an existing pair.
LoopBranchOpen ==
    \/ count_unique_symbols(current_vocab) >= target_vocab_size
    \/ NoPairs(get_pair_frequencies(current_vocab))
    \/ /\ get_pair_frequencies(current_vocab) # <<>>
       /\ HasKey(get_pair_frequencies(current_vocab),
                 most_frequent_pair(get_pair_frequencies(current_vocab)))

\* C15: train_bpe terminates for every vocabulary and every target: each
\* pass of the loop either stops or lowers the number of symbol
\* occurrences, a branch of the loop body can always be taken, and none
\* raises.  It stops only where the number of distinct symbols is >= the
\* target or no word-form holds an adjacent pair; for an empty vocabulary
\* it returns an empty merge list.
C15_TrainingTerminates ==
    /\ [][pc = "train_loop" /\ pc' = "train_loop" =>
            SymbolOccurrences(current_vocab') < SymbolOccurrences(current_vocab)]_vars
    /\ [](pc = "train_loop" => LoopBranchOpen)
    /\ [](pc # "error")
    /\ [](pc = "trained" =>
            \/ count_unique_symbols(current_vocab) >= target_vocab_size
            \/ ~AdjacentPairExists(current_vocab))
    /\ [](pc = "trained" /\ vocab = <<>> => merges = <<>> /\ current_vocab = <<>>)

\* C15 witness: training stopped below the target, after two or more
\* merges, because no pair was left.
C15_Witness ==
    /\ pc = "trained"
    /\ Len(merges) >= 2
    /\ count_unique_symbols(current_vocab) < target_vocab_size
    /\ ~AdjacentPairExists(current_vocab)

\* The word-form with every non-overlapping occurrence of the pair, taken
\* leftmost first, replaced by the concatenated symbol.
RECURSIVE ReplacedPair(_, _)
ReplacedPair(word, pair) ==
    IF word = <<>> THEN <<>>
    ELSE IF Len(word) >= 2 /\ Head(word) = pair[1] /\ Head(Tail(word)) = pair[2]
         THEN <<pair[1] \o pair[2]>> \o ReplacedPair(Tail(Tail(word)), pair)
         ELSE <<Head(word)>> \o ReplacedPair(Tail(word), pair)

XYZ == << <<"x">>, <<"y">>, <<"z">>, EOW >>

\* C16: merge_pair rewrites every word-form, replacing each non-overlapping
\* occurrence of the pair, leftmost first, by the concatenated symbol,
\* leaves the other symbols in place and carries every frequency over
\* unchanged; (x, y, z, </w>) of frequency 4 with the pair (x, y) becomes
\* (xy, z, </w>) of frequency 4.
C16_MergePairRewrites ==
    /\ [][pc = "train_loop" /\ pc' = "train_loop" =>
            /\ Len(merges') = Len(merges) + 1
            /\ Len(current_vocab') = Len(current_vocab)
            /\ \A k \in 1..Len(current_vocab) :
                    /\ current_vocab'[k][1] = ReplacedPair(current_vocab[k][1], Last(merges'))
                    /\ current_vocab'[k][2] = current_vocab[k][2]]_vars
    /\ [](pc = "train_loop" /\ vocab = << <<XYZ, 4>> >> /\ merges = << << <<"x">>, <<"y">> >> >> =>
            current_vocab = << << << <<"x", "y">>, <<"z">>, EOW >>, 4 >> >>)

\* C16 witness: the pair (a, a) was merged in (a, a, a, </w>), where its two
\* occurrences overlap, next to a word-form it does not occur in.
C16_Witness ==
    /\ pc = "train_loop"
    /\ merges = << << <<"a">>, <<"a">> >> >>
    /\ HasKey(current_vocab, << <<"a", "a">>, <<"a">>, EOW >>)
    /\ HasKey(current_vocab, << <<"b">>, <<"a">>, EOW >>)

\* The token is a word's last character, or a longer piece of the word,
\* with the end-of-word marker attached.
CarriesEOW(t) ==
    /\ Len(t) > Len(EOW)
    /\ SubSeq(t, Len(t) - Len(EOW) + 1, Len(t)) = EOW

\* C17: encode scenario: the two-word text with the single rule (first
\* letter, second letter) of the first word encodes to the merged symbol,
\* then the first word's last letter joined with the end-of-word marker,
\* then the second word's letters unmerged, the last one with its marker;
\* in general the tokens of a word end with a token that carries the
\* end-of-word marker attached to the word's last character.
C17_EncodeScenario ==
    /\ pc = "encoded" /\ text = ScenarioText /\ merges = ScenarioMerges =>
          tokens = << <<"U+0628", "U+06C1">>, <<"U+062A">> \o EOW,
                      <<"U+0627">>, <<"U+0686">>, <<"U+06BE">>, <<"U+0627">> \o EOW >>
    /\ pc = "encoded" /\ Split(text) # <<>> /\ Last(Split(text)) \notin BracketedSpecials =>
          CarriesEOW(Last(tokens))

\* C18: encoding replays training: after train_bpe on the vocabulary of a
\* corpus, encode(word, merges) is, for every corpus word, the symbol
\* sequence of that word's word-form in the final vocabulary.
C18_EncodeReplaysTraining ==
    pc = "trained" =>
        /\ Len(current_vocab) = Len(vocab)
        /\ \A i \in 1..Len(Split(text)) :
              /\ HasKey(vocab, word_tuple(Split(text)[i]))
              /\ \A k \in 1..Len(vocab) :
                    vocab[k][1] = word_tuple(Split(text)[i]) =>
                        current_vocab[k][1] = encode(Split(text)[i], merges)

\* C18 witness: a rule that applies only after an earlier one was learned,
\* and a corpus word encoded as a single symbol.
C18_Witness ==
    /\ pc = "trained"
    /\ Len(merges) >= 2
    /\ merges[2][1] = merges[1][1] \o merges[1][2]
    /\ \E i \in 1..Len(Split(text)) : Len(encode(Split(text)[i], merges)) = 1
    /\ Len(vocab) >= 2

\* ------------------------------------------------------------------------
\* interpolated_probability as a state machine
\* ------------------------------------------------------------------------
Pa == <<"a">>
Pb == <<"b">>
Pc == <<"c">>
Pd == <<"d">>

\* The tables of the module's own interpolation test.
ScenarioUnigrams == (Pa :> 10) @@ (Pb :> 5) @@ (Pc :> 3)
ScenarioBigrams == (<<Pa, Pb>> :> 4) @@ (<<Pb, Pc>> :> 2)
ScenarioTrigrams == (<<Pa, Pb, Pc>> :> 2)

\* Tables handed to interpolated_probability directly: the scenario, empty
\* tables, tables whose parts do not belong together (a bigram table
\* without unigrams, a context seen as a bigram whose w2 has no unigram
\* count), and a table with a zero count.
HandTables ==
    { [unigrams |-> ScenarioUnigrams, bigrams |-> ScenarioBigrams, trigrams |-> ScenarioTrigrams],
      [unigrams |-> EmptyTable, bigrams |-> EmptyTable, trigrams |-> EmptyTable],
      [unigrams |-> EmptyTable, bigrams |-> ScenarioBigrams, trigrams |-> ScenarioTrigrams],
      [unigrams |-> (Pc :> 3), bigrams |-> (<<Pa, Pb>> :> 4), trigrams |-> ScenarioTrigrams],
      [unigrams |-> (Pb :> 0), bigrams |-> (<<Pa, Pb>> :> 0), trigrams |-> EmptyTable],
      [unigrams |-> ScenarioUnigrams, bigrams |-> EmptyTable, trigrams |-> ScenarioTrigrams] }

ProbTokenPool == { Pa, Pb }

QueryTokenPool == { Pa, Pb, Pc, Pd }

InitProb ==
    /\ CodecIdle
    /\ decoded_text = <<>>
    /\ prefix_tokens = <<>>
    /\ max_len = 0
    /\ lambdas \in LambdaChoices
    /\ stop_reason = "none"
    /\ result = <<>>
    /\ TrainIdle
    /\ ProbIdle
    /\ StoreIdle
    /\ ApiIdle
    /\ \/ /\ pc = "corpus"
          /\ tokens \in SeqsOf(ProbTokenPool, 0, MaxCorpusLen)
          /\ TablesEmpty
       \/ /\ pc = "tables"
          /\ tokens = <<>>
          /\ \E t \in HandTables :
                /\ unigram_counts = t.unigrams
                /\ bigram_counts = t.bigrams
                /\ trigram_counts = t.trigrams

\* prob = interpolated_probability(w1, w2, w3, unigrams, bigrams, trigrams, lambdas)
\* (a division by zero raises ZeroDivisionError)
InterpolatedProbability ==
    /\ pc \in {"counted", "tables"}
    /\ \E w1 \in QueryTokenPool, w2 \in QueryTokenPool, w3 \in QueryTokenPool :
         LET p == interpolated_probability(w1, w2, w3, unigram_counts, bigram_counts,
                                           trigram_counts, lambdas)
         IN  /\ query' = <<w1, w2, w3>>
             /\ IF p.den = 0
                THEN pc' = "error" /\ prob' = prob
                ELSE pc' = "prob" /\ prob' = p
    /\ UNCHANGED << codecVars, tokens, decoded_text, tableVars, genArgs, stop_reason, result,
                    trainVars, storeVars, apiVars >>

NextProb == CountNgrams \/ InterpolatedProbability

SpecProb == InitProb /\ [][NextProb]_vars

\* The tables are the ones count_ngrams returns for the token sequence.
CountedTables ==
    LET c == count_ngrams(tokens)
    IN  /\ unigram_counts = c.unigrams
        /\ bigram_counts = c.bigrams
        /\ trigram_counts = c.trigrams

\* The three component probabilities of the query are 0: the numerator
\* count is 0 or the denominator count is 0.
ComponentsAllZero ==
    /\ Get(unigram_counts, query[3]) = 0 \/ Total(unigram_counts) = 0
    /\ Get(bigram_counts, <<query[2], query[3]>>) = 0 \/ Get(unigram_counts, query[2]) = 0
    /\ Get(trigram_counts, query) = 0 \/ Get(bigram_counts, <<query[1], query[2]>>) = 0

\* C12: probability bounds: for tables counted from a token sequence and
\* the default weights, interpolated_probability of any three tokens, seen
\* or unseen, lies in [0, 1], and is exactly 0 when its three component
\* probabilities are 0.
C12_ProbabilityBounds ==
    pc = "prob" /\ CountedTables /\ lambdas = DefaultLambdas =>
        /\ prob.den > 0
        /\ 0 <= prob.num
        /\ prob.num <= prob.den
        /\ ComponentsAllZero => prob.num = 0

\* C12 witness: a probability strictly between 0 and 1 whose context holds
\* an unseen token, and whose three terms all take part.
C12_Witness ==
    /\ pc = "prob"
    /\ CountedTables
    /\ lambdas = DefaultLambdas
    /\ Len(tokens) >= 3
    /\ query[1] \notin DOMAIN unigram_counts
    /\ 0 < prob.num
    /\ prob.num < prob.den

\* The denominators of the three components, and the weighted sum of the
\* components whose denominator is not zero, over the common denominator
\* 10 * NZ(d1) * NZ(d2) * NZ(d3).
NZ(d) == IF d = 0 THEN 1 ELSE d

Den1 == Total(unigram_counts)

Den2 == Get(unigram_counts, query[2])

Den3 == Get(bigram_counts, <<query[1], query[2]>>)

DefinedComponentsNum ==
    (IF Den1 = 0 THEN 0
     ELSE lambdas[1] * Get(unigram_counts, query[3]) * NZ(Den2) * NZ(Den3))
    + (IF Den2 = 0 THEN 0
       ELSE lambdas[2] * Get(bigram_counts, <<query[2], query[3]>>) * NZ(Den1) * NZ(Den3))
    + (IF Den3 = 0 THEN 0
       ELSE lambdas[3] * Get(trigram_counts, query) * NZ(Den1) * NZ(Den2))

\* C13: numeric degeneracy never raises: for any tables, empty ones
\* included, and any tokens, interpolated_probability returns a value; a
\* component whose denominator is zero contributes exactly 0, the value
\* being the weighted sum of the other components.
C13_DegeneracyNeverRaises ==
    /\ pc # "error"
    /\ pc = "prob" =>
          /\ prob.den = 10 * NZ(Den1) * NZ(Den2) * NZ(Den3)
          /\ prob.num = DefinedComponentsNum
          /\ Den1 = 0 /\ Den2 = 0 /\ Den3 = 0 => prob.num = 0

\* C13 witness: no unigrams at all, yet the trigram component is defined
\* and gives a positive probability.
C13_Witness ==
    /\ pc = "prob"
    /\ Den1 = 0
    /\ Den2 = 0
    /\ Den3 > 0
    /\ prob.num > 0

\* C14: worked scenario: unigrams {a:10, b:5, c:3}, bigrams {(a,b):4,
\* (b,c):2}, trigrams {(a,b,c):2}, weights (0.1, 0.3, 0.6):
\* interpolated_probability(a, b, c) = 0.1*(3/18) + 0.3*(2/5) + 0.6*(2/4)
\* = 131/300.
C14_WorkedScenario ==
    /\ pc = "prob"
    /\ unigram_counts = ScenarioUnigrams
    /\ bigram_counts = ScenarioBigrams
    /\ trigram_counts = ScenarioTrigrams
    /\ lambdas = DefaultLambdas
    /\ query = <<Pa, Pb, Pc>>
    => prob.num * 300 = 131 * prob.den

\* C14 witness: the scenario's query has been evaluated.
C14_Witness ==
    /\ pc = "prob"
    /\ unigram_counts = ScenarioUnigrams
    /\ bigram_counts = ScenarioBigrams
    /\ trigram_counts = ScenarioTrigrams
    /\ lambdas = DefaultLambdas
    /\ query = <<Pa, Pb, Pc>>
    /\ prob.den = 3600

\* The trigram counts that extend the pair (a, b), and the bigram counts
\* that extend the token a, summed.
TrigramsOf(a, b) ==
    SumOver(trigram_counts, { t \in DOMAIN trigram_counts : t[1] = a /\ t[2] = b })

BigramsOf(a) ==
    SumOver(bigram_counts, { k \in DOMAIN bigram_counts : k[1] = a })

\* C11: sub-count containment: in the tables count_ngrams returns, every
\* pair (a, b) has a bigram count >= the sum over c of the trigram counts
\* of (a, b, c), and every token a has a unigram count >= the sum over b
\* of the bigram counts of (a, b); unseen pairs and tokens count 0.
C11_SubCountContainment ==
    pc = "counted" =>
        /\ \A a \in CountTokenPool : \A b \in CountTokenPool :
                Get(bigram_counts, <<a, b>>) >= TrigramsOf(a, b)
        /\ \A a \in CountTokenPool :
                Get(unigram_counts, a) >= BigramsOf(a)
        /\ \A t \in DOMAIN trigram_counts : {t[1], t[2], t[3]} \subseteq CountTokenPool
        /\ \A k \in DOMAIN bigram_counts : {k[1], k[2]} \subseteq CountTokenPool

\* C11 witness: a pair seen more often than its trigrams (it also ends the
\* sequence) with a trigram seen twice, and a token seen more often than
\* its bigrams.
C11_Witness ==
    /\ pc = "counted"
    /\ \E t \in DOMAIN trigram_counts :
            /\ trigram_counts[t] >= 2
            /\ Get(bigram_counts, <<t[1], t[2]>>) > TrigramsOf(t[1], t[2])
    /\ \E a \in DOMAIN unigram_counts : unigram_counts[a] > BigramsOf(a)

\* ---------------------------------------------------------------------
\* Choice of the pair to merge
\* ---------------------------------------------------------------------

\* Every adjacent pair of the vocabulary with the frequency of its word-form,
\* in scan order: word-forms in vocabulary order, positions left to right.
RECURSIVE PairScan(_, _)
PairScan(v, k) ==
    IF k > Len(v) THEN <<>>
    ELSE [i \in 1..(Len(v[k][1]) - 1) |->
            << <<v[k][1][i], v[k][1][i + 1]>>, v[k][2] >>] \o PairScan(v, k + 1)

RECURSIVE ScanFrequency(_, _, _)
ScanFrequency(scan, p, i) ==
    IF i > Len(scan) THEN 0
    ELSE (IF scan[i][1] = p THEN scan[i][2] ELSE 0) + ScanFrequency(scan, p, i + 1)

\* p is the most frequent pair of the scan and no pair met before p's first
\* occurrence is as frequent.
FirstMostFrequent(p, scan) ==
    /\ \E i \in 1..Len(scan) : scan[i][1] = p
    /\ \A j \in 1..Len(scan) :
          /\ ScanFrequency(scan, scan[j][1], 1) <= ScanFrequency(scan, p, 1)
          /\ (\A i \in 1..j : scan[i][1] # p)
                => ScanFrequency(scan, scan[j][1], 1) < ScanFrequency(scan, p, 1)

\* C24: in every iteration of train_bpe the pair appended to the merge list
\* is at least as frequent as every other adjacent pair of the current
\* vocabulary, and among pairs of equal frequency it is the one met first
\* in scan order.
C24_MostFrequentPairFirst ==
    [][ (pc = "train_loop" /\ merges' # merges)
          => /\ Len(merges') = Len(merges) + 1
             /\ FirstMostFrequent(Last(merges'), PairScan(current_vocab, 1)) ]_vars

\* One merge has been made from a vocabulary in which two different pairs
\* share the largest frequency, and the later one is not the one chosen.
C24_Witness ==
    /\ pc = "train_loop"
    /\ Len(merges) = 1
    /\ LET scan == PairScan(vocab, 1)
       IN  /\ FirstMostFrequent(merges[1], scan)
           /\ \E j \in 1..Len(scan) :
                 /\ scan[j][1] # merges[1]
                 /\ ScanFrequency(scan, scan[j][1], 1) = ScanFrequency(scan, merges[1], 1)

\* ---------------------------------------------------------------------
\* Size of the trained vocabulary
\* ---------------------------------------------------------------------

\* C29: train_bpe never overshoots its target: a merge raises the number of
\* distinct symbols by at most one, so during and after training that number
\* is at most the larger of the initial number and target_vocab_size.
C29_NoOvershoot ==
    /\ [][ (pc = "train_loop" /\ merges' # merges)
            => count_unique_symbols(current_vocab')
                 <= count_unique_symbols(current_vocab) + 1 ]_vars
    /\ [](pc \in {"train_loop", "trained"}
            => count_unique_symbols(current_vocab)
                 <= Max(count_unique_symbols(vocab), target_vocab_size))

\* Training has stopped exactly on a target above the initial number of
\* distinct symbols, each of its merges having added a symbol.
C29_Witness ==
    /\ pc = "trained"
    /\ Len(merges) >= 2
    /\ count_unique_symbols(vocab) < target_vocab_size
    /\ count_unique_symbols(current_vocab) = target_vocab_size
    /\ count_unique_symbols(current_vocab) = count_unique_symbols(vocab) + Len(merges)

\* ---------------------------------------------------------------------
\* Conservation of the corpus by training
\* ---------------------------------------------------------------------

\* The distinct words of a word list in order of first occurrence, and the
\* number of occurrences of one word.
RECURSIVE DistinctWords(_, _)
DistinctWords(words, seen) ==
    IF words = <<>> THEN <<>>
    ELSE IF Head(words) \in seen THEN DistinctWords(Tail(words), seen)
         ELSE <<Head(words)>> \o DistinctWords(Tail(words), seen \cup {Head(words)})

Occurrences(words, w) == Cardinality({ i \in 1..Len(words) : words[i] = w })

RECURSIVE FrequencySum(_)
FrequencySum(v) == IF v = <<>> THEN 0 ELSE Head(v)[2] + FrequencySum(Tail(v))

\* The training run started from initialize_vocabulary(text.split()).
TrainedFromCorpus ==
    /\ pc \in {"train_loop", "trained"}
    /\ vocab = initialize_vocabulary(Split(text))

\* The word-forms are those of the distinct corpus words, one each, with the
\* words' numbers of occurrences as frequencies.
WordFormsConserved ==
    LET words == Split(text)
        distinct == DistinctWords(words, {})
    IN  /\ Len(current_vocab) = Len(distinct)
        /\ Len(current_vocab) = Len(vocab)
        /\ FrequencySum(current_vocab) = Len(words)
        /\ \A k \in 1..Len(current_vocab) :
              current_vocab[k][2] = Occurrences(words, distinct[k])

PositiveAfter(toks, w3) ==
    LET w1 == IF Len(toks) >= 2 THEN toks[Len(toks) - 1] ELSE PAD
        w2 == toks[Len(toks)]
    IN  interpolated_probability(w1, w2, w3, unigram_counts, bigram_counts,
                                 trigram_counts, lambdas).num > 0

\* C26: every token generate_story samples and appends is a key of the
\* unigram table and has a strictly positive interpolated probability under
\* the context of that step.
C26_SampledTokensArePossible ==
    [][ (pc = "while" /\ tokens' # tokens)
          => /\ tokens # <<>>
             /\ tokens' = Append(tokens, Last(tokens'))
             /\ Last(tokens') \in DOMAIN unigram_counts
             /\ PositiveAfter(tokens, Last(tokens')) ]_vars

\* Two tokens have been sampled, and at the last step some unigram key had
\* probability zero, so the filter p > 0 mattered.
C26_Witness ==
    /\ pc = "while"
    /\ Appended >= 2
    /\ LET before == SubSeq(tokens, 1, Len(tokens) - 1)
       IN  /\ PositiveAfter(before, Last(tokens))
           /\ \E w3 \in DOMAIN unigram_counts : ~PositiveAfter(before, w3)

\* ---------------------------------------------------------------------
\* Default weights: the unigram floor
\* ---------------------------------------------------------------------

\* The precondition of C28: the default weights and a non-empty unigram
\* table of positive counts.
UnigramFloorApplies ==
    /\ lambdas = DefaultLambdas
    /\ DOMAIN unigram_counts # {}
    /\ \A w \in DOMAIN unigram_counts : unigram_counts[w] > 0

\* Context tokens: unigram keys, tokens outside the table, and '<PAD>'.
ContextTokens == DOMAIN unigram_counts \cup PrefixTokenPool \cup {PAD}

\* C28: with the default weights and a non-empty unigram table of positive
\* counts every unigram token has strictly positive probability under
\* every context, the candidate set of every step is the whole unigram
\* vocabulary, and generate_story never stops on an exhausted distribution:
\* it ends by sampling EOT or on reaching max_len.
C28_UnigramFloor ==
    UnigramFloorApplies =>
        /\ \A w1 \in ContextTokens, w2 \in ContextTokens, w3 \in DOMAIN unigram_counts :
              interpolated_probability(w1, w2, w3, unigram_counts, bigram_counts,
                                       trigram_counts, lambdas).num > 0
        /\ (pc = "while" /\ tokens # <<>>) => CurrentCandidates = DOMAIN unigram_counts
        /\ stop_reason # "exhausted"
        /\ (pc = "done" /\ prefix_tokens # <<>>) => stop_reason \in {"eot", "budget"}

\* A story was generated under the default weights from a two-token prefix
\* whose bigram was never seen in training, and ended by sampling EOT.
C28_Witness ==
    /\ UnigramFloorApplies
    /\ pc = "done"
    /\ Len(prefix_tokens) = 2
    /\ Get(bigram_counts, <<prefix_tokens[1], prefix_tokens[2]>>) = 0
    /\ Appended >= 2
    /\ stop_reason = "eot"

\* ------------------------------------------------------------------------
\* api/generate.py : load_models, handler.do_POST
\* backend/api.py  : module start-up, generate_story_endpoint
\* ------------------------------------------------------------------------
MinMaxLength == 10
MaxMaxLength == 2000
DefaultMaxLength == 500
BackendMinMaxLength == 1
BackendMaxMaxLength == 200
BackendDefaultMaxLength == 50

\* Bounds of the serving model: requests per process, and the longest story
\* whose generation is followed over a vocabulary with tokens other than EOT.
MaxRequests == 2
MaxStoryLen == 11

\* A lone surrogate, as json.loads returns it for the escape \ud800.
Surrogate == "U+D800"

HasSurrogate(s) == \E i \in 1..Len(s) : s[i] = Surrogate

Digits == <<"0", "1", "2", "3", "4", "5", "6", "7", "8", "9">>

IsDigit(c) == \E d \in 1..10 : Digits[d] = c

RECURSIVE ParseDigits(_, _)
ParseDigits(s, acc) ==
    IF s = <<>> THEN acc
    ELSE ParseDigits(Tail(s), 10 * acc + (CHOOSE d \in 1..10 : Digits[d] = Head(s)) - 1)

\* int(x) for a JSON value: an int is itself, a float is truncated, a string
\* is parsed (ValueError unless it is a decimal literal), None raises
\* TypeError.
PyInt(v) ==
    CASE v.t = "int" -> [raised |-> "no", n |-> v.n]
      [] v.t = "float" -> [raised |-> "no", n |-> v.n]
      [] v.t = "str" ->
           LET d == Strip(v.s)
           IN  IF d # <<>> /\ \A i \in 1..Len(d) : IsDigit(d[i])
               THEN [raised |-> "no", n |-> ParseDigits(d, 0)]
               ELSE [raised |-> "ValueError", n |-> 0]
      [] OTHER -> [raised |-> "TypeError", n |-> 0]

\* What one send_response ... wfile.write sequence puts on the wire.
ErrorResponse(status, message) ==
    [status |-> status, error |-> message, story |-> <<>>, prefix |-> <<>>, body |-> TRUE]

StoryResponse(story, prefix) ==
    [status |-> 200, error |-> "", story |-> story, prefix |-> prefix, body |-> TRUE]

\* send_response(200) and the headers, without a body.
HeadersOnly ==
    [status |-> 200, error |-> "", story |-> <<>>, prefix |-> <<>>, body |-> FALSE]

\* except Exception as e: send_error_response(500, f"Internal server error: {e}")
ServerError == ErrorResponse(500, "Internal server error")

Rejected(response) == [ok |-> FALSE, response |-> response, prefix |-> <<>>, max_length |-> 0]

\* do_POST up to the call of load_models: decoding and parsing of the body,
\* the prefix test and the max_length test.
DoPostChecks(req) ==
    IF req.body = "not_utf8" THEN Rejected(ServerError)
    ELSE IF req.body = "invalid_json"
    THEN Rejected(ErrorResponse(400, "Invalid JSON in request body"))
    ELSE IF req.body # "object" THEN Rejected(ServerError)
    ELSE LET p == IF req.prefix.t = "absent" THEN JsonStr(<<>>) ELSE req.prefix
         IN  IF p.t # "str" THEN Rejected(ServerError)
             ELSE IF Strip(p.s) = <<>>
             THEN Rejected(ErrorResponse(400, "Missing or empty 'prefix' field"))
             ELSE LET m == IF req.max_length.t = "absent"
                           THEN JsonInt(DefaultMaxLength) ELSE req.max_length
                      i == PyInt(m)
                  IN  IF i.raised = "TypeError" THEN Rejected(ServerError)
                      ELSE IF \/ i.raised = "ValueError"
                              \/ i.n < MinMaxLength
                              \/ i.n > MaxMaxLength
                      THEN Rejected(ErrorResponse(400,
                              "max_length must be an integer between 10 and 2000"))
                      ELSE [ok |-> TRUE, response |-> HeadersOnly,
                            prefix |-> Strip(p.s), max_length |-> i.n]

\* The validation FastAPI runs on GenerateRequest before the endpoint body:
\* prefix is a required str, max_length an int with ge=1, le=200 and the
\* default 50; a request that fails it is answered with status 422.
ValidationError == ErrorResponse(422, "Unprocessable Entity")

GenerateRequestChecks(req) ==
    IF req.body # "object" THEN Rejected(ValidationError)
    ELSE IF req.prefix.t # "str" THEN Rejected(ValidationError)
    ELSE LET m == IF req.max_length.t = "absent"
                  THEN JsonInt(BackendDefaultMaxLength) ELSE req.max_length
             i == IF m.t \in {"int", "str"} THEN PyInt(m) ELSE [raised |-> "ValueError", n |-> 0]
         IN  IF \/ i.raised # "no"
                \/ i.n < BackendMinMaxLength
                \/ i.n > BackendMaxMaxLength
             THEN Rejected(ValidationError)
             ELSE [ok |-> TRUE, response |-> HeadersOnly,
                   prefix |-> req.prefix.s, max_length |-> i.n]

\* str.replace(pat, ''): every non-overlapping occurrence, leftmost first.
RECURSIVE RemoveAll(_, _)
RemoveAll(s, pat) ==
    IF Len(s) < Len(pat) THEN s
    ELSE IF SubSeq(s, 1, Len(pat)) = pat
         THEN RemoveAll(SubSeq(s, Len(pat) + 1, Len(s)), pat)
         ELSE <<Head(s)>> \o RemoveAll(Tail(s), pat)

\* The list special_tokens of generate_story_endpoint.
CleanupTokens ==
    << <<"<", "E", "O", "T", ">">>, <<"<", "E", "O", "S", ">">>, <<"<", "E", "O", "P", ">">>,
       <<"<", "P", "A", "D", ">">>, <<"u", "n", "d", "e", "f", "i", "n", "e", "d">>,
       <<"N", "o", "n", "e">>, <<"n", "u", "l", "l">>, <<"N", "a", "N">>,
       <<"<", "U", "N", "K", ">">>, <<"<", "S", "T", "A", "R", "T", ">">>,
       <<"<", "E", "N", "D", ">">> >>

RECURSIVE RemoveTokens(_, _)
RemoveTokens(s, pats) ==
    IF pats = <<>> THEN s ELSE RemoveTokens(RemoveAll(s, Head(pats)), Tail(pats))

\* re.sub(r'<[^>]+>', '', s)
RECURSIVE RemoveBracketed(_)
RemoveBracketed(s) ==
    IF s = <<>> THEN <<>>
    ELSE IF /\ s[1] = "<"
            /\ Len(s) >= 3
            /\ s[2] # ">"
            /\ \E j \in 3..Len(s) : s[j] = ">"
         THEN LET j == CHOOSE k \in 3..Len(s) :
                          s[k] = ">" /\ \A l \in 3..(k - 1) : s[l] # ">"
              IN  RemoveBracketed(SubSeq(s, j + 1, Len(s)))
         ELSE <<Head(s)>> \o RemoveBracketed(Tail(s))

\* The clean-up of generate_story_endpoint.
CleanStory(s) == Strip(JoinSpace(Split(RemoveBracketed(RemoveTokens(s, CleanupTokens)))))

\* The deployed artifacts: a tokenizer whose one rule joins 'a' to the
\* end-of-word marker, and a trigram model counted from an empty, a
\* one-token or a two-token stream.
ServingMerges == << << <<"a">>, EOW >> >>

ServingVocab == merge_pair(ServingMerges[1], initialize_vocabulary(<< <<"a">> >>))

ServingModels ==
    { count_ngrams(<<>>), count_ngrams(<<EOT_STR>>), count_ngrams(<<TokA, EOT_STR>>) }

VocabFile == [state |-> "ok", content |-> SerializeVocab(ServingVocab)]

MergesFile == [state |-> "ok", content |-> MergesText(ServingMerges)]

ModelFile(model) == [state |-> "ok", content |-> model]

\* Request bodies sent to do_POST.
PrefixValues ==
    { JsonAbsent, JsonNull, JsonInt(5), JsonStr(<<>>), JsonStr(<<" ">>), JsonStr(<<"a">>),
      JsonStr(<<" ", "a", " ">>), JsonStr(<<"a", " ", "b">>), JsonStr(<<Surrogate>>) }

MaxLengthValues ==
    { JsonAbsent, JsonNull, JsonStr(<<"a", "b", "c">>), JsonStr(<<"1", "2">>),
      JsonInt(MinMaxLength - 1), JsonInt(MinMaxLength), JsonInt(MinMaxLength + 1),
      JsonInt(MaxMaxLength), JsonInt(MaxMaxLength + 1), JsonHalf(MinMaxLength) }

PostRequests ==
    { [body |-> b, prefix |-> JsonAbsent, max_length |-> JsonAbsent] :
        b \in {"invalid_json", "not_utf8", "array"} }
    \cup { [body |-> "object", prefix |-> p, max_length |-> m] :
             p \in PrefixValues, m \in MaxLengthValues }

\* Request bodies sent to POST /generate of backend/api.py.
BackendPrefixValues ==
    { JsonAbsent, JsonStr(<<>>), JsonStr(<<"a">>), JsonStr(<<"<", "a", ">", " ", "a">>) }

BackendMaxLengthValues ==
    { JsonAbsent, JsonNull, JsonStr(<<"a", "b", "c">>),
      JsonInt(BackendMinMaxLength - 1), JsonInt(BackendMinMaxLength), JsonInt(5),
      JsonInt(BackendMaxMaxLength), JsonInt(BackendMaxMaxLength + 1) }

BackendRequests ==
    { [body |-> "invalid_json", prefix |-> JsonAbsent, max_length |-> JsonAbsent] }
    \cup { [body |-> "object", prefix |-> p, max_length |-> m] :
             p \in BackendPrefixValues, m \in BackendMaxLengthValues }

\* Generation is followed for stories of up to MaxStoryLen tokens, and for
\* longer ones over a model whose only token is EOT.
Followed(limit, unigrams) == limit <= MaxStoryLen \/ DOMAIN unigrams \subseteq {EOT_STR}

InitApi ==
    /\ entry \in {"vercel", "backend"}
    /\ pc = IF entry = "vercel" THEN "idle" ELSE "startup"
    /\ \E vocab_there \in BOOLEAN, merges_there \in BOOLEAN, model_there \in BOOLEAN,
          model \in ServingModels :
         disk = [vocab_json |-> IF vocab_there THEN VocabFile ELSE NoFile,
                 merges_txt |-> IF merges_there THEN MergesFile ELSE NoFile,
                 model_pkl |-> IF model_there THEN ModelFile(model) ELSE NoFile]
    /\ loaded = NotLoaded
    /\ request = NoRequest
    /\ responses = <<>>
    /\ calls = {}
    /\ cache = EmptyCache
    /\ served = 0
    /\ CodecIdle
    /\ tokens = <<>>
    /\ decoded_text = <<>>
    /\ TablesEmpty
    /\ GenIdle
    /\ TrainIdle
    /\ ProbIdle

apiFrame == UNCHANGED << text, vocab, lambdas, trainVars, probVars, loaded, entry >>

handlerLocals ==
    << merges, tokens, decoded_text, prefix_tokens, max_len, tableVars, stop_reason, result >>

\* The artifacts are put in place (again) while no request is being handled.
DeployArtifacts ==
    /\ pc = "idle"
    /\ entry = "vercel"
    /\ \E f \in {"vocab_json", "merges_txt", "model_pkl"} : disk[f].state = "missing"
    /\ \E model \in ServingModels :
         disk' = [vocab_json |-> VocabFile,
                  merges_txt |-> MergesFile,
                  model_pkl |-> IF disk.model_pkl.state = "ok"
                                THEN disk.model_pkl ELSE ModelFile(model)]
    /\ UNCHANGED << handlerLocals, request, responses, calls, cache, served, pc >>
    /\ apiFrame

\* do_POST: the body is read, parsed and validated.
ValidateRequest ==
    /\ pc = "idle"
    /\ entry = "vercel"
    /\ served < MaxRequests
    /\ \E req \in PostRequests :
         LET c == DoPostChecks(req)
         IN  /\ request' = req
             /\ responses' = IF c.ok THEN <<>> ELSE <<c.response>>
             /\ pc' = IF c.ok THEN "load" ELSE "responded"
    /\ served' = served + 1
    /\ calls' = {}
    /\ UNCHANGED << handlerLocals, disk, cache >>
    /\ apiFrame

\* vocab, merges, unigrams, bigrams, trigrams = load_models()
load_models ==
    /\ pc = "load"
    /\ calls' = calls \cup {"load_models"}
    /\ IF cache.vocab.is_none
       THEN LET t == load_tokenizer(disk)
                m == load_model(disk)
            IN  IF t.status = "error"
                THEN /\ cache' = cache
                     /\ responses' = Append(responses, ServerError)
                     /\ pc' = "responded"
                ELSE IF m.status = "error"
                THEN /\ cache' = [cache EXCEPT !.vocab = Loaded(t.vocab),
                                               !.merges = Loaded(t.merges)]
                     /\ responses' = Append(responses, ServerError)
                     /\ pc' = "responded"
                ELSE /\ cache' = [vocab |-> Loaded(t.vocab), merges |-> Loaded(t.merges),
                                  unigrams |-> Loaded(m.unigrams),
                                  bigrams |-> Loaded(m.bigrams),
                                  trigrams |-> Loaded(m.trigrams)]
                     /\ responses' = responses
                     /\ pc' = "encode"
       ELSE /\ cache' = cache
            /\ responses' = responses
            /\ pc' = "encode"
    /\ UNCHANGED << handlerLocals, disk, request, served >>
    /\ apiFrame

\* generate_story is entered with the arguments the handler passes:
\* tokens = prefix_tokens.copy(); the loop starts.
EnterGenerateStory(toks, limit) ==
    /\ merges' = cache.merges.value
    /\ prefix_tokens' = toks
    /\ max_len' = limit
    /\ tokens' = toks
    /\ unigram_counts' = cache.unigrams.value
    /\ bigram_counts' = cache.bigrams.value
    /\ trigram_counts' = cache.trigrams.value
    /\ stop_reason' = "none"
    /\ decoded_text' = <<>>
    /\ result' = <<>>

\* prefix_tokens = encode(prefix, merges); print(...); generate_story(...)
\* print raises UnicodeEncodeError on a lone surrogate where stdout is
\* strict; list(unigram_counts.keys()) raises when the table is None.
EncodeAndGenerate ==
    /\ pc = "encode"
    /\ LET c == DoPostChecks(request)
           toks == encode(c.prefix, cache.merges.value)
       IN  \/ /\ HasSurrogate(c.prefix)
              /\ calls' = calls \cup {"encode"}
              /\ responses' = Append(responses, ServerError)
              /\ pc' = "responded"
              /\ UNCHANGED handlerLocals
           \/ /\ cache.unigrams.is_none
              /\ calls' = calls \cup {"encode", "generate_story"}
              /\ responses' = Append(responses, ServerError)
              /\ pc' = "responded"
              /\ max_len' = c.max_length
              /\ prefix_tokens' = toks
              /\ UNCHANGED << merges, tokens, decoded_text, tableVars, stop_reason, result >>
           \/ /\ ~cache.unigrams.is_none
              /\ Followed(c.max_length, cache.unigrams.value)
              /\ calls' = calls \cup {"encode", "generate_story"}
              /\ responses' = responses
              /\ pc' = "while"
              /\ EnterGenerateStory(toks, c.max_length)
    /\ UNCHANGED << disk, request, cache, served >>
    /\ apiFrame

\* story_text = str(story_text).strip(); send_response(200); headers;
\* wfile.write(response.encode('utf-8')).  Encoding a lone surrogate raises
\* after the status line went out, and the except branch sends a second
\* response.
SendStory ==
    /\ pc = "done"
    /\ entry = "vercel"
    /\ LET c == DoPostChecks(request)
           story_text == Strip(result)
       IN  responses' =
             IF HasSurrogate(story_text) \/ HasSurrogate(c.prefix)
             THEN responses \o <<HeadersOnly, ServerError>>
             ELSE Append(responses, StoryResponse(story_text, c.prefix))
    /\ pc' = "responded"
    /\ UNCHANGED << handlerLocals, disk, request, calls, cache, served >>
    /\ apiFrame

\* The handler returns; its locals are gone when the next request arrives.
HandlerReturns ==
    /\ pc = "responded"
    /\ served < MaxRequests
    /\ pc' = "idle"
    /\ request' = NoRequest
    /\ responses' = <<>>
    /\ calls' = {}
    /\ merges' = <<>>
    /\ tokens' = <<>>
    /\ decoded_text' = <<>>
    /\ prefix_tokens' = <<>>
    /\ max_len' = 0
    /\ unigram_counts' = EmptyTable
    /\ bigram_counts' = EmptyTable
    /\ trigram_counts' = EmptyTable
    /\ stop_reason' = "none"
    /\ result' = <<>>
    /\ UNCHANGED << disk, cache, served >>
    /\ apiFrame

\* backend/api.py at import: vocab, merges = load_tokenizer(...);
\* unigrams, bigrams, trigrams = load_model(...).  An exception ends the
\* process before it serves.
BackendStartup ==
    /\ pc = "startup"
    /\ LET t == load_tokenizer(disk)
           m == load_model(disk)
       IN  IF t.status = "error" \/ m.status = "error"
           THEN cache' = cache /\ pc' = "crashed"
           ELSE /\ cache' = [vocab |-> Loaded(t.vocab), merges |-> Loaded(t.merges),
                             unigrams |-> Loaded(m.unigrams),
                             bigrams |-> Loaded(m.bigrams),
                             trigrams |-> Loaded(m.trigrams)]
                /\ pc' = "idle"
    /\ UNCHANGED << handlerLocals, disk, request, responses, calls, served >>
    /\ apiFrame

\* POST /generate: validation of the body, then
\* prefix_tokens = encode(request.prefix, merges); generate_story(...)
GenerateStoryEndpoint ==
    /\ pc = "idle"
    /\ entry = "backend"
    /\ served < MaxRequests
    /\ \E req \in BackendRequests :
         LET c == GenerateRequestChecks(req)
         IN  /\ request' = req
             /\ IF c.ok
                THEN /\ Followed(c.max_length, cache.unigrams.value)
                     /\ calls' = {"encode", "generate_story"}
                     /\ responses' = <<>>
                     /\ pc' = "while"
                     /\ EnterGenerateStory(encode(c.prefix, cache.merges.value), c.max_length)
                ELSE /\ calls' = {}
                     /\ responses' = <<c.response>>
                     /\ pc' = "responded"
                     /\ UNCHANGED handlerLocals
    /\ served' = served + 1
    /\ UNCHANGED << disk, cache >>
    /\ apiFrame

\* The clean-up of the story and return GenerateResponse(story=story_text)
ReturnGenerateResponse ==
    /\ pc = "done"
    /\ entry = "backend"
    /\ responses' = Append(responses, StoryResponse(CleanStory(result), <<>>))
    /\ pc' = "responded"
    /\ UNCHANGED << handlerLocals, disk, request, calls, cache, served >>
    /\ apiFrame

NextApi ==
    \/ DeployArtifacts
    \/ ValidateRequest
    \/ load_models
    \/ EncodeAndGenerate
    \/ NextGen
    \/ SendStory
    \/ HandlerReturns
    \/ BackendStartup
    \/ GenerateStoryEndpoint
    \/ ReturnGenerateResponse

SpecApi == InitApi /\ [][NextApi]_vars

\* ---------------------------------------------------------------------
\* Properties of the serving API
\* ---------------------------------------------------------------------

\* The request has no usable prefix: the body is JSON without a prefix
\* field, or the prefix is the empty or a whitespace-only string.
PrefixMissingOrBlank(req) ==
    \/ req.body = "array"
    \/ /\ req.body = "object"
       /\ \/ req.prefix.t = "absent"
          \/ req.prefix.t = "str" /\ Strip(req.prefix.s) = <<>>

\* C21: do_POST answers a body that is not valid JSON with status 400 and
\* the error 'Invalid JSON in request body', and a request whose prefix is
\* missing, empty or whitespace-only with status 400 and the error
\* "Missing or empty 'prefix' field"; in both cases load_models, encode and
\* generate_story are never called.
C21_MalformedRequestsRejected ==
    (entry = "vercel" /\ pc = "responded") =>
        /\ request.body \in {"invalid_json", "not_utf8"}
             => /\ responses = <<ErrorResponse(400, "Invalid JSON in request body")>>
                /\ calls = {}
        /\ PrefixMissingOrBlank(request)
             => /\ responses = <<ErrorResponse(400, "Missing or empty 'prefix' field")>>
                /\ calls = {}

\* The request passes the body and prefix tests, so max_length is looked at.
ReachesMaxLengthTest(req) ==
    /\ req.body = "object"
    /\ req.prefix.t = "str"
    /\ Strip(req.prefix.s) # <<>>

\* max_length is left out, or is an integer (or the decimal literal of one)
\* in 10..2000.
MaxLengthInRange(req) ==
    \/ req.max_length.t = "absent"
    \/ /\ req.max_length.t \in {"int", "str"}
       /\ PyInt(req.max_length).raised = "no"
       /\ PyInt(req.max_length).n \in MinMaxLength..MaxMaxLength

\* C22: on every API entry point a request whose max_length is not an
\* integer in 10..2000 (out of range, non-numeric or null) is rejected with
\* a 400 response, and generate_story is never called with a max_len
\* outside 10..2000.
C22_MaxLengthEnforced ==
    /\ "generate_story" \in calls => max_len \in MinMaxLength..MaxMaxLength
    /\ (pc = "responded" /\ ReachesMaxLengthTest(request) /\ ~MaxLengthInRange(request))
          => /\ Len(responses) = 1
             /\ responses[1].status = 400
             /\ calls = {}

\* A valid request: a JSON object with a non-blank prefix and max_length in
\* range; and a deployment whose three artifacts are in place.
ValidRequest(req) == ReachesMaxLengthTest(req) /\ MaxLengthInRange(req)

DeploymentIntact ==
    \A f \in {"vocab_json", "merges_txt", "model_pkl"} : disk[f].state = "ok"

\* C23: for every valid request do_POST sends exactly one response, with
\* status 200, whose 'story' field is the text generate_story returned,
\* stripped, and whose 'prefix' field is the request's prefix, stripped.
C23_ValidRequestAnswered ==
    (entry = "vercel" /\ pc = "responded" /\ ValidRequest(request) /\ DeploymentIntact)
        => responses = <<StoryResponse(Strip(result), Strip(request.prefix.s))>>

CacheFields == {"vocab", "merges", "unigrams", "bigrams", "trigrams"}

\* C27: every load_models call that returns normally returns five loaded
\* components, none of them None, whatever calls came before it.
C27_LoadModelsReturnsLoaded ==
    pc = "encode" => \A f \in CacheFields : ~cache[f].is_none

\* C25: serving is read-only.  A loaded merge list or n-gram table is never
\* changed again, over any number of requests; and from the entry into
\* generate_story (with its calls of interpolated_probability and decode)
\* to the response, the merge list, the three tables and the prefix token
\* list encode returned to the caller stay as they were passed in.
C25_ServingIsReadOnly ==
    [][ /\ \A f \in CacheFields : ~cache[f].is_none => cache'[f] = cache[f]
        /\ pc \in {"while", "after_loop", "decode", "done"}
             => /\ UNCHANGED << merges, tableVars, prefix_tokens >>
                /\ merges = cache.merges.value
                /\ unigram_counts = cache.unigrams.value
                /\ bigram_counts = cache.bigrams.value
                /\ trigram_counts = cache.trigrams.value ]_vars

\* The second request of a process has been generated: two or more tokens
\* were sampled after a non-empty prefix, and the cache is fully loaded.
C25_Witness ==
    /\ served = 2
    /\ pc = "done"
    /\ prefix_tokens # <<>>
    /\ Appended >= 2
    /\ prefix_tokens = encode(Strip(request.prefix.s), cache.merges.value)
    /\ \A f \in CacheFields : ~cache[f].is_none

====
